---- MODULE Spec2Model ----
(***************************************************************************)
(* The kanban backend's schema loader (schema_loader.py), dynamic model    *)
(* deriver (models.py), HTTP handlers (main.py) and card store             *)
(* (database.py) as one state machine, and beside it the agent side: the   *)
(* card generator (agent_service.py) and the writing tools of the MCP      *)
(* server (fastmcp_server.py).                                             *)
(*                                                                         *)
(* Handlers are coroutines without suspension points, so the event loop    *)
(* runs each of them to completion.  The model keeps card and schema-info  *)
(* requests atomic, and splits the reload handler at every assignment it   *)
(* makes, letting the other requests run between those points: a superset  *)
(* of the schedules of the event loop.  Reloads do not overlap each other. *)
(***************************************************************************)
EXTENDS Integers, Sequences, FiniteSets, TLC

VARIABLES
    file,            \* the schema document on disk (card.schema.json)
    schema_data,     \* SchemaLoader.schema_data
    dynamic_models,  \* models.dynamic_models: "None" or "object"
    dm,              \* attributes Card, CardList, ... of the DynamicCardModel object
    exported,        \* module globals models.Card, models.CardList, ...
    main_import,     \* names bound by main.py's "from models import ..."
    phase,           \* "boot" while modules are imported, then "serving"
    reload_pc,       \* position of the reload handler: 0 idle, 1 loading, 2.. assignments
    ngen,            \* number of model derivations that created classes
    response,        \* the answer of the last finished request
    loaded,          \* history: the document the last _load_schema read, what it raised
    before,          \* history: schema and classes when the last reload began
    collection,      \* the records of the store's "cards" collection, in insertion order
    clock,           \* the reading of datetime.utcnow()
    uuids,           \* number of ids uuid.uuid4() has generated
    prior            \* history: the collection when the last card request began

vars == <<file, schema_data, dynamic_models, dm, exported, main_import,
          phase, reload_pc, ngen, response, loaded, before,
          collection, clock, uuids, prior>>

\* What the schema handlers leave alone.
store_vars == <<collection, clock, uuids, prior>>

\* What the card handlers leave alone.
model_vars == <<file, schema_data, dynamic_models, dm, exported, main_import,
                phase, reload_pc, ngen, loaded, before>>

(***************************************************************************)
(* Bounds of the model.                                                    *)
(***************************************************************************)
MaxReloads == 1

MaxClock == 2

MaxCards == 3

MaxWords == 1

MaxBatch == 2

(***************************************************************************)
(* JSON values, as json.load returns them.  Every kind has its own field   *)
(* names, so values of different kinds compare unequal.                    *)
(***************************************************************************)
JNull == [j |-> "null"]

JNum(n) == [j |-> "num", n |-> n]

JStr(s) == [j |-> "str", s |-> s]

JList(xs) == [j |-> "list", xs |-> xs]

JDict(m) == [j |-> "dict", m |-> m]

EmptyDict == JDict([k \in {} |-> JNull])

\* Python truth value of a JSON value ("if not x").
Truthy(v) ==
    CASE v.j = "null" -> FALSE
      [] v.j = "num"  -> v.n # 0
      [] v.j = "str"  -> v.s # ""
      [] v.j = "list" -> v.xs # <<>>
      [] v.j = "dict" -> DOMAIN v.m # {}

IsDict(v) == v.j = "dict"

\* d.get(key, {}) on a dict d.
DictGet(d, key) == IF key \in DOMAIN d.m THEN d.m[key] ELSE EmptyDict

\* d.get(key) on a dict d: None when the key is absent.
DictGetNone(d, key) == IF key \in DOMAIN d.m THEN d.m[key] ELSE JNull

\* Results of operations that may raise.
Ok(v) == [ok |-> TRUE, val |-> v]

Raise(e) == [ok |-> FALSE, err |-> e]


(***************************************************************************)
(* The schema document on disk.                                            *)
(***************************************************************************)
Absent == [disk |-> "absent"]

NotJson == [disk |-> "text"]

Json(v) == [disk |-> "json", value |-> v]

(***************************************************************************)
(* SchemaLoader (schema_loader.py).                                        *)
(***************************************************************************)
\* A loader that updates the dict it holds in place, key by key.
LoadedSchemaInPlace(old, parsed) ==
    IF IsDict(old) /\ IsDict(parsed)
    THEN JDict([key \in DOMAIN old.m \cup DOMAIN parsed.m |->
                   IF key \in DOMAIN parsed.m THEN parsed.m[key] ELSE old.m[key]])
    ELSE parsed

\* The value "self.schema_data = json.load(f)" leaves in schema_data.
LoadedSchema(old, parsed) == parsed

\* _load_schema: the new schema_data and the exception raised ("none" when it
\* returns).  The document is assigned before len() and .keys() are applied to it,
\* so a JSON document that is no object is kept although the load raises.
LoadSchema(old, f) ==
    IF f.disk = "absent"
    THEN [schema_data |-> old, raised |-> "FileNotFoundError"]
    ELSE IF f.disk = "text"
    THEN [schema_data |-> old, raised |-> "RuntimeError: Invalid JSON in schema file"]
    ELSE [schema_data |-> LoadedSchema(old, f.value),
          raised |-> IF IsDict(f.value) THEN "none"
                     ELSE "RuntimeError: Failed to load schema"]

\* reload_schema: _load_schema with every exception wrapped in a RuntimeError.
ReloadSchema(old, f) ==
    LET r == LoadSchema(old, f)
    IN  [schema_data |-> r.schema_data,
         raised |-> IF r.raised = "none" THEN "none"
                    ELSE "RuntimeError: Failed to reload schema"]

\* get_schema
GetSchema(sd) == IF Truthy(sd) THEN Ok(sd) ELSE Raise("RuntimeError")

\* get_card_properties: properties.cards.items.properties, an absent or empty
\* (falsy) node raises, and so does .get on a node that is no dict and len() of
\* card properties that are a number.
GetCardProperties(sd) ==
    IF ~Truthy(sd) \/ ~IsDict(sd) THEN Raise("RuntimeError")
    ELSE LET properties == DictGet(sd, "properties") IN
    IF ~Truthy(properties) \/ ~IsDict(properties) THEN Raise("RuntimeError")
    ELSE LET cards_array == DictGet(properties, "cards") IN
    IF ~Truthy(cards_array) \/ ~IsDict(cards_array) THEN Raise("RuntimeError")
    ELSE LET card_item == DictGet(cards_array, "items") IN
    IF ~Truthy(card_item) \/ ~IsDict(card_item) THEN Raise("RuntimeError")
    ELSE LET card_properties == DictGet(card_item, "properties") IN
    IF ~Truthy(card_properties) \/ card_properties.j = "num"
    THEN Raise("RuntimeError")
    ELSE Ok(card_properties)

\* A loader that looks for the required list at the top of the document.
GetRequiredFieldsTopLevel(sd) ==
    IF ~Truthy(sd) \/ ~IsDict(sd) THEN Raise("RuntimeError")
    ELSE Ok(IF "required" \in DOMAIN sd.m THEN sd.m["required"] ELSE JList(<<>>))

\* get_required_fields: card_item.get('required', []); no node is checked for
\* emptiness, .get on a node that is no dict raises, and so does len() of a
\* required value that is null or a number.
GetRequiredFields(sd) ==
    IF ~Truthy(sd) \/ ~IsDict(sd) THEN Raise("RuntimeError")
    ELSE LET properties == DictGet(sd, "properties") IN
    IF ~IsDict(properties) THEN Raise("RuntimeError")
    ELSE LET cards_array == DictGet(properties, "cards") IN
    IF ~IsDict(cards_array) THEN Raise("RuntimeError")
    ELSE LET card_item == DictGet(cards_array, "items") IN
    IF ~IsDict(card_item) THEN Raise("RuntimeError")
    ELSE LET required_fields == IF "required" \in DOMAIN card_item.m
                                THEN card_item.m["required"] ELSE JList(<<>>)
         IN  IF required_fields.j \in {"null", "num"} THEN Raise("RuntimeError")
             ELSE Ok(required_fields)

\* get_status_enum: the status property's enum, [] when anything is missing or
\* raises.
GetStatusEnum(sd) ==
    LET cp == GetCardProperties(sd) IN
    IF ~cp.ok \/ ~IsDict(cp.val) THEN JList(<<>>)
    ELSE LET status_prop == DictGet(cp.val, "status") IN
    IF ~Truthy(status_prop) \/ ~IsDict(status_prop) THEN JList(<<>>)
    ELSE LET status_enum ==
                 IF "enum" \in DOMAIN status_prop.m
                 THEN status_prop.m["enum"] ELSE JList(<<>>)
         IN  IF Truthy(status_enum) THEN status_enum ELSE JList(<<>>)

\* get_schema_info without the file's path and modification time: {} when no
\* schema is held, an error dict when a getter raises.
GetSchemaInfo(sd) ==
    IF ~Truthy(sd) THEN [info |-> "empty"]
    ELSE LET cp == GetCardProperties(sd)
             rf == GetRequiredFields(sd)
         IN  IF ~cp.ok \/ ~rf.ok \/ ~IsDict(cp.val) THEN [info |-> "error"]
             ELSE [info |-> "schema",
                   title |-> DictGetNone(sd, "title"),
                   card_properties |-> DOMAIN cp.val.m,
                   required_fields |-> rf.val,
                   status_values |-> GetStatusEnum(sd)]

(***************************************************************************)
(* DynamicCardModel (models.py): Python types and derived classes.         *)
(***************************************************************************)
TStr == [k |-> "str"]

TInt == [k |-> "int"]

TBool == [k |-> "bool"]

TDatetime == [k |-> "datetime"]

TAny == [k |-> "Any"]

TListStr == [k |-> "List[str]"]

TListAny == [k |-> "List[Any]"]

\* Enum('CardStatus', members): members maps each member name to its value.
TEnum(members) == [k |-> "Enum", members |-> members]

\* The types of the envelopes' fields, which refer to a Card class.
TCard(card_class) == [k |-> "Card", card |-> card_class]

TListCard(card_class) == [k |-> "List[Card]", card |-> card_class]

\* str.lower() on the description, tag and prompt strings of the model.
Lower(s) ==
    CASE s = "Status" -> "status"
      [] s = "Backend" -> "backend"
      [] s = "Web-marketing" -> "web-marketing"
      [] s = "Current status of the card" -> "current status of the card"
      [] OTHER -> s

\* value.upper().replace('-', '_') on the status strings of the model.
EnumMemberName(s) ==
    CASE s = "research"    -> "RESEARCH"
      [] s = "in-progress" -> "IN_PROGRESS"
      [] s = "in_progress" -> "IN_PROGRESS"
      [] s = "done"        -> "DONE"
      [] s = "blocked"     -> "BLOCKED"
      [] s = "planned"     -> "PLANNED"
      [] s = "archived"    -> "ARCHIVED"

\* The dict comprehension of _create_status_enum: a later value replaces an
\* earlier one of the same member name.
RECURSIVE EnumDict(_)
EnumDict(xs) ==
    IF xs = <<>> THEN [n \in {} |-> ""]
    ELSE LET rest == EnumDict(SubSeq(xs, 1, Len(xs) - 1))
             last == xs[Len(xs)].s
         IN  [n \in DOMAIN rest \cup {EnumMemberName(last)} |->
                 IF n = EnumMemberName(last) THEN last ELSE rest[n]]

\* _create_status_enum: str when the comprehension raises (the enum is no list,
\* or a value of it is no string).  The enums of the model are lists, numbers or
\* null.
CreateStatusEnum(status_values) ==
    CASE status_values.j \in {"null", "num"} -> TStr
      [] status_values.j = "list" ->
            IF \E i \in DOMAIN status_values.xs : status_values.xs[i].j # "str"
            THEN TStr
            ELSE TEnum(EnumDict(status_values.xs))

\* A mapping that takes a property of an unknown or missing type for a string.
GetPythonTypeStringByDefault(field_spec) ==
    IF ~IsDict(field_spec) THEN TStr
    ELSE LET field_type == DictGetNone(field_spec, "type") IN
    CASE field_type = JStr("integer") -> TInt
      [] field_type = JStr("array") -> TListAny
      [] field_type = JStr("boolean") -> TBool
      [] OTHER -> TStr

\* _get_python_type: Any for an unknown or missing type and whenever an
\* exception is raised (a spec, its items or its description of the wrong kind).
GetPythonType(field_spec) ==
    IF ~IsDict(field_spec) THEN TAny
    ELSE LET field_type == DictGetNone(field_spec, "type") IN
    CASE field_type = JStr("string") ->
            IF DictGetNone(field_spec, "format") = JStr("date-time")
            THEN TDatetime
            ELSE IF "enum" \in DOMAIN field_spec.m
            THEN LET description ==
                         IF "description" \in DOMAIN field_spec.m
                         THEN field_spec.m["description"] ELSE JStr("")
                 IN  IF description.j # "str" THEN TAny
                     ELSE IF Lower(description.s) = "status"
                     THEN CreateStatusEnum(field_spec.m["enum"])
                     ELSE TStr
            ELSE TStr
      [] field_type = JStr("integer") -> TInt
      [] field_type = JStr("array") ->
            LET items == DictGet(field_spec, "items") IN
            IF ~IsDict(items) THEN TAny
            ELSE IF DictGetNone(items, "type") = JStr("string")
            THEN TListStr ELSE TListAny
      [] field_type = JStr("boolean") -> TBool
      [] OTHER -> TAny

\* "field_name in required_fields" for the required values get_required_fields
\* returns in the model, a list or a dict.
InRequired(field_name, required_fields) ==
    CASE required_fields.j = "list" ->
            \E i \in DOMAIN required_fields.xs :
                required_fields.xs[i] = JStr(field_name)
      [] required_fields.j = "dict" -> field_name \in DOMAIN required_fields.m

\* One entry of field_definitions: (field_type, ...) for a required field,
\* (Optional[field_type], None) for another.  The (Any, None) of the except
\* branch is never taken: _get_python_type catches what it raises, and the
\* membership test cannot raise for a value that len() accepted.
FieldDefinition(field_name, field_spec, required_fields) ==
    IF InRequired(field_name, required_fields)
    THEN [type |-> GetPythonType(field_spec), optional |-> FALSE,
          default |-> "Ellipsis"]
    ELSE [type |-> GetPythonType(field_spec), optional |-> TRUE,
          default |-> "None"]

\* The loop that fills field_definitions.
FieldDefinitions(card_properties, required_fields) ==
    [f \in DOMAIN card_properties.m |->
        FieldDefinition(f, card_properties.m[f], required_fields)]

\* A deriver that lets every declared field be updated.
AllFieldsUpdatable(card_properties) == DOMAIN card_properties.m

\* The fields CardUpdate is given.
UpdatableFields(card_properties) == DOMAIN card_properties.m \ {"id", "createdAt"}

\* The loop that fills update_field_definitions.
UpdateFieldDefinitions(card_properties) ==
    [f \in UpdatableFields(card_properties) |->
        [type |-> GetPythonType(card_properties.m[f]), optional |-> TRUE,
         default |-> "None"]]

\* A deriver that reads the card properties with defaults instead of the
\* checking getter, and so derives classes from any schema it holds.
CreateModelsUnchecked(sd) ==
    LET cp == GetCardProperties(sd)
        rf == GetRequiredFields(sd)
    IN  IF cp.ok /\ rf.ok /\ IsDict(cp.val)
        THEN Ok([Card |-> FieldDefinitions(cp.val, rf.val),
                 CardUpdate |-> UpdateFieldDefinitions(cp.val)])
        ELSE Ok([Card |-> FieldDefinitions(EmptyDict, JList(<<>>)),
                 CardUpdate |-> UpdateFieldDefinitions(EmptyDict)])

\* What _create_models reads and computes before it creates a class; it raises
\* when a getter raises or card_properties has no .items().
CreateModels(sd) ==
    LET schema == GetSchema(sd)
        cp == GetCardProperties(sd)
        rf == GetRequiredFields(sd)
    IN  IF ~schema.ok \/ ~cp.ok \/ ~rf.ok THEN Raise("RuntimeError")
        ELSE IF ~IsDict(cp.val) THEN Raise("RuntimeError")
        ELSE Ok([Card |-> FieldDefinitions(cp.val, rf.val),
                 CardUpdate |-> UpdateFieldDefinitions(cp.val)])

ModelNames == {"Card", "CardList", "CardUpdate", "CardResponse", "CardsResponse"}

\* The order in which _create_models and reload_models assign the five names.
NameOrder == <<"Card", "CardList", "CardUpdate", "CardResponse", "CardsResponse">>

Required(t) == [type |-> t, optional |-> FALSE, default |-> "Ellipsis"]

\* A deriver whose list of required fields is used up by the first derivation.
CreateClassRequiredOnce(name, g, card_class, sd) ==
    [name |-> name, gen |-> g, fields |->
        CASE name = "Card" ->
                IF g <= 1 THEN CreateModels(sd).val.Card
                ELSE FieldDefinitions(GetCardProperties(sd).val, JList(<<>>))
          [] name = "CardUpdate" -> CreateModels(sd).val.CardUpdate
          [] name = "CardList" -> [cards |-> Required(TListCard(card_class))]
          [] name = "CardResponse" ->
                [success |-> Required(TBool), message |-> Required(TStr),
                 data |-> [type |-> TCard(card_class), optional |-> TRUE,
                           default |-> "None"]]
          [] name = "CardsResponse" ->
                [success |-> Required(TBool), message |-> Required(TStr),
                 data |-> Required(TListCard(card_class))]]

\* create_model(name, ...) of derivation number g, from the schema sd; the
\* envelopes refer to card_class, the class held in self.Card.
CreateClass(name, g, card_class, sd) ==
    [name |-> name, gen |-> g, fields |->
        CASE name = "Card" -> CreateModels(sd).val.Card
          [] name = "CardUpdate" -> CreateModels(sd).val.CardUpdate
          [] name = "CardList" -> [cards |-> Required(TListCard(card_class))]
          [] name = "CardResponse" ->
                [success |-> Required(TBool), message |-> Required(TStr),
                 data |-> [type |-> TCard(card_class), optional |-> TRUE,
                           default |-> "None"]]
          [] name = "CardsResponse" ->
                [success |-> Required(TBool), message |-> Required(TStr),
                 data |-> Required(TListCard(card_class))]]

\* pydantic.BaseModel, a class without fields.
BaseModel == [name |-> "BaseModel", gen |-> 0, fields |-> [f \in {} |-> Required(TAny)]]

\* A name that is not bound.
Unset == [name |-> "unset", gen |-> 0, fields |-> [f \in {} |-> Required(TAny)]]

\* A module that binds no fallback when the initialisation fails.
NoFallbackModels == [n \in ModelNames |-> Unset]

\* The fallback of models.py: the five names bound to BaseModel.
FallbackModels == [n \in ModelNames |-> BaseModel]

\* The five classes of derivation number g, as _create_models assigns them.
CreatedModels(g, sd) ==
    LET card_class == CreateClass("Card", g, Unset, sd)
    IN  [n \in ModelNames |-> CreateClass(n, g, card_class, sd)]

(***************************************************************************)
(* Schema documents the file may hold.  card.schema.json is not among the  *)
(* sources; CardSchemaA follows the card described by the specification.   *)
(***************************************************************************)
StatusValues == <<JStr("research"), JStr("in-progress"), JStr("done"),
                  JStr("blocked"), JStr("planned")>>

PString == JDict([type |-> JStr("string")])

PDateTime == JDict([type |-> JStr("string"), format |-> JStr("date-time")])

PInteger == JDict([type |-> JStr("integer")])

PTags == JDict([type |-> JStr("array"), items |-> PString])

PStatus(description) ==
    JDict([type |-> JStr("string"), enum |-> JList(StatusValues),
           description |-> JStr(description)])

PNumber == JDict([type |-> JStr("number")])

\* The object found at properties.cards.items.
CardItem(card_properties, required) ==
    JDict([type |-> JStr("object"), properties |-> JDict(card_properties),
           required |-> JList(required)])

SchemaDocument(title, card_item) ==
    JDict([title |-> JStr(title), type |-> JStr("object"),
           properties |-> JDict([cards |->
               JDict([type |-> JStr("array"), items |-> card_item])])])

CardSchemaA ==
    SchemaDocument("Kanban Board",
        CardItem([id |-> PString, title |-> PString, description |-> PString,
                  status |-> PStatus("Status"), order |-> PInteger,
                  tags |-> PTags, createdAt |-> PDateTime,
                  updatedAt |-> PDateTime, completedAt |-> PDateTime],
                 <<JStr("id"), JStr("title"), JStr("description"),
                   JStr("status"), JStr("order"), JStr("tags"),
                   JStr("createdAt"), JStr("updatedAt")>>))

\* An edited schema: another title, a free-text status description, a property
\* of a type the deriver does not know, fewer required fields.
CardSchemaB ==
    SchemaDocument("Kanban Board v2",
        CardItem([id |-> PString, title |-> PString, description |-> PString,
                  status |-> PStatus("Current status of the card"),
                  order |-> PInteger, tags |-> PTags, createdAt |-> PDateTime,
                  updatedAt |-> PDateTime, completedAt |-> PDateTime,
                  priority |-> PNumber],
                 <<JStr("title"), JStr("status")>>))

\* Parseable documents without a usable properties.cards.items.properties.
NoProperties == JDict([title |-> JStr("Untitled"), type |-> JStr("object")])

NoCards ==
    JDict([title |-> JStr("Untitled"),
           properties |-> JDict([lists |-> JDict([type |-> JStr("array")])])])

NoItems ==
    JDict([title |-> JStr("Untitled"),
           properties |-> JDict([cards |-> JDict([type |-> JStr("array")])])])

NoItemProperties ==
    SchemaDocument("Untitled",
        JDict([type |-> JStr("object"), required |-> JList(<<JStr("title")>>)]))

PropertiesNotADict == JDict([title |-> JStr("Untitled"), properties |-> JStr("cards")])

WellFormed == {CardSchemaA, CardSchemaB}

WrongShape == {EmptyDict, NoProperties, NoCards, NoItems, NoItemProperties,
               PropertiesNotADict}

NotAnObject == {JNull, JList(<<>>), JList(<<JStr("cards")>>)}

Documents ==
    {Absent, NotJson} \cup {Json(v) : v \in WellFormed \cup WrongShape \cup NotAnObject}

\* Whether a parsed document has properties.cards.items.properties.
HasCardPath(v) ==
    /\ IsDict(v) /\ "properties" \in DOMAIN v.m
    /\ IsDict(v.m["properties"]) /\ "cards" \in DOMAIN v.m["properties"].m
    /\ IsDict(v.m["properties"].m["cards"])
    /\ "items" \in DOMAIN v.m["properties"].m["cards"].m
    /\ IsDict(v.m["properties"].m["cards"].m["items"])
    /\ "properties" \in DOMAIN v.m["properties"].m["cards"].m["items"].m

(***************************************************************************)
(* Python values of card fields.  A str is modelled by the text it was     *)
(* made from, so that the conversions between values and their stored      *)
(* strings are not the identity.                                           *)
(***************************************************************************)
PyNone == [py |-> "None"]

PyInt(n) == [py |-> "int", n |-> n]

\* datetime at clock reading t
PyDatetime(t) == [py |-> "datetime", t |-> t]

PyList(xs) == [py |-> "list", xs |-> xs]

\* A member of the CardStatus enum, by its value.
PyEnum(value) == [py |-> "enum", value |-> value]

\* A literal text.
PyStr(s) == [py |-> "str", s |-> s]

\* str(n) of an int n
Digits(n) == [py |-> "str", digits |-> n]

\* datetime.isoformat()
IsoFormat(t) == [py |-> "str", iso |-> t]

\* str(xs) of a list xs of strs
ListRepr(xs) == [py |-> "str", listrepr |-> xs]

\* str(member) of an enum member: "CardStatus.DONE"
EnumRepr(value) == [py |-> "str", enumrepr |-> EnumMemberName(value)]

\* str(uuid.uuid4()), the k-th id generated
Uuid(k) == [py |-> "str", uuid |-> k]

IsPyStr(v) == v.py = "str"

IsLiteral(v) == v.py = "str" /\ "s" \in DOMAIN v

\* Python truth value
PyTruthy(v) ==
    CASE v.py = "None" -> FALSE
      [] v.py = "int" -> v.n # 0
      [] v.py = "list" -> v.xs # <<>>
      [] v.py = "str" -> ~(IsLiteral(v) /\ v.s = "")
      [] OTHER -> TRUE

\* str(value) for the values all_card_dict_fields_to_str passes to it.
ToStr(v) ==
    CASE v.py = "str" -> v
      [] v.py = "int" -> Digits(v.n)
      [] v.py = "enum" -> EnumRepr(v.value)
      [] v.py = "None" -> PyStr("None")

\* all_card_dict_fields_to_str: every value a string; a completedAt of None is
\* left out.
AllCardDictFieldsToStr(card_dict) ==
    LET kept == {key \in DOMAIN card_dict :
                    ~(card_dict[key].py = "None" /\ key = "completedAt")}
    IN  [key \in kept |->
            LET value == card_dict[key] IN
            CASE value.py = "datetime" -> IsoFormat(value.t)
              [] value.py = "list" ->
                    ListRepr([i \in DOMAIN value.xs |-> ToStr(value.xs[i])])
              [] value.py = "None" -> PyStr("None")
              [] OTHER -> ToStr(value)]

\* datetime.fromisoformat
FromIsoFormat(v) ==
    IF v.py = "str" /\ "iso" \in DOMAIN v THEN Ok(PyDatetime(v.iso))
    ELSE Raise("ValueError")

\* eval() of a stored tags value: the list a list-repr text denotes, None for
\* the text "None"; it raises for other texts of the model and for a value that
\* is no str.
Eval(v) ==
    IF v.py = "str" /\ "listrepr" \in DOMAIN v THEN Ok(PyList(v.listrepr))
    ELSE IF v = PyStr("None") THEN Ok(PyNone)
    ELSE Raise("Error")

Range(f) == {f[x] : x \in DOMAIN f}

(***************************************************************************)
(* pydantic: validation of a value against a field type and of a dict      *)
(* against a class.  The inputs of the model never offer a number to a str *)
(* field or a value to a bool field that the library would coerce.         *)
(***************************************************************************)
Validate(type, v) ==
    CASE type.k = "Any" -> Ok(v)
      [] type.k = "str" ->
            IF v.py = "str" THEN Ok(v) ELSE Raise("ValidationError")
      [] type.k = "int" ->
            IF v.py = "int" THEN Ok(v)
            ELSE IF v.py = "str" /\ "digits" \in DOMAIN v THEN Ok(PyInt(v.digits))
            ELSE Raise("ValidationError")
      [] type.k = "datetime" ->
            IF v.py = "datetime" THEN Ok(v)
            ELSE IF v.py = "str" /\ "iso" \in DOMAIN v THEN Ok(PyDatetime(v.iso))
            ELSE Raise("ValidationError")
      [] type.k = "bool" -> Raise("ValidationError")
      [] type.k = "List[str]" ->
            IF v.py = "list" /\ \A i \in DOMAIN v.xs : v.xs[i].py = "str"
            THEN Ok(v) ELSE Raise("ValidationError")
      [] type.k = "List[Any]" ->
            IF v.py = "list" THEN Ok(v) ELSE Raise("ValidationError")
      [] type.k = "Enum" ->
            IF v.py = "enum" /\ v.value \in Range(type.members) THEN Ok(v)
            ELSE IF IsLiteral(v) /\ v.s \in Range(type.members)
            THEN Ok(PyEnum(v.s))
            ELSE Raise("ValidationError")

\* One field of Model(**data): the validated value, the default None of a
\* field that is not given, or an error (a required field missing, None for a
\* field that is neither Optional nor Any, a value of the wrong type).
ValidateField(definition, data, f) ==
    IF f \notin DOMAIN data
    THEN IF definition.default = "Ellipsis" THEN Raise("ValidationError")
         ELSE Ok(PyNone)
    ELSE IF data[f].py = "None"
    THEN IF definition.optional \/ definition.type.k = "Any" THEN Ok(PyNone)
         ELSE Raise("ValidationError")
    ELSE Validate(definition.type, data[f])

\* Model(**data): keys that are no fields are ignored.  The instance keeps its
\* class, its values and the fields that were given (fields_set).
ValidateModel(class, data) ==
    IF \E f \in DOMAIN class.fields : ~ValidateField(class.fields[f], data, f).ok
    THEN Raise("ValidationError")
    ELSE Ok([class |-> class,
             values |-> [f \in DOMAIN class.fields |->
                            ValidateField(class.fields[f], data, f).val],
             fields_set |-> DOMAIN class.fields \cap DOMAIN data])

(***************************************************************************)
(* CardDatabase (database.py).  The collection is the sequence of stored   *)
(* records, each an id and a metadata dict of strings, in insertion order. *)
(***************************************************************************)
\* collection.get(ids=[card_id]): the positions of the records with that id.
Found(coll, card_id) == {i \in DOMAIN coll : coll[i].id = card_id}

Override(d, e) ==
    [key \in DOMAIN d \cup DOMAIN e |-> IF key \in DOMAIN e THEN e[key] ELSE d[key]]

\* The conversion of stored metadata into the arguments of Card(...), shared
\* by get_all_cards and get_card_by_id: the timestamps parsed, completedAt None
\* when it is missing, empty or "None", the tags evaluated.
CardData(metadata) ==
    LET created == IF "createdAt" \in DOMAIN metadata
                   THEN FromIsoFormat(metadata["createdAt"]) ELSE Ok(PyNone)
        updated == IF "updatedAt" \in DOMAIN metadata
                   THEN FromIsoFormat(metadata["updatedAt"]) ELSE Ok(PyNone)
        completed == IF "completedAt" \in DOMAIN metadata
                        /\ PyTruthy(metadata["completedAt"])
                        /\ metadata["completedAt"] # PyStr("None")
                     THEN FromIsoFormat(metadata["completedAt"]) ELSE Ok(PyNone)
        tags == IF "tags" \in DOMAIN metadata
                THEN Eval(metadata["tags"]) ELSE Ok(PyNone)
    IN  IF ~created.ok \/ ~updated.ok \/ ~completed.ok \/ ~tags.ok
        THEN Raise("Error")
        ELSE Ok([key \in DOMAIN metadata \cup {"completedAt"} |->
                    CASE key = "createdAt" -> created.val
                      [] key = "updatedAt" -> updated.val
                      [] key = "completedAt" -> completed.val
                      [] key = "tags" -> tags.val
                      [] OTHER -> metadata[key]])

\* Card(**card_data) for stored metadata.
StoredCard(Card, metadata) ==
    IF CardData(metadata).ok THEN ValidateModel(Card, CardData(metadata).val)
    ELSE Raise("Error")

\* A get_card_by_id that takes results['metadatas'][0] without looking whether
\* there is one.
GetCardByIdUnchecked(coll, Card, card_id) ==
    IF Found(coll, card_id) = {} THEN [r |-> "raise"]
    ELSE LET metadata == coll[CHOOSE i \in Found(coll, card_id) : TRUE].metadata
             card == StoredCard(Card, metadata)
         IN  IF card.ok THEN [r |-> "card", card |-> card.val]
             ELSE [r |-> "raise"]

\* get_card_by_id: None when no record has the id, the card, or a RuntimeError
\* when the record cannot be converted or fails validation.
GetCardById(coll, Card, card_id) ==
    IF Found(coll, card_id) = {} THEN [r |-> "None"]
    ELSE LET metadata == coll[CHOOSE i \in Found(coll, card_id) : TRUE].metadata
             card == StoredCard(Card, metadata)
         IN  IF card.ok THEN [r |-> "card", card |-> card.val]
             ELSE [r |-> "raise"]

\* The key of cards.sort: getattr(x, 'order', 0).
OrderKey(card) ==
    IF "order" \in DOMAIN card.values THEN card.values["order"] ELSE PyInt(0)

\* Whether "a < b" is defined for two sort keys: ints with ints, and the
\* one-digit number texts of the model with each other.
Comparable(a, b) ==
    \/ a.py = "int" /\ b.py = "int"
    \/ a.py = "str" /\ b.py = "str" /\ "digits" \in DOMAIN a /\ "digits" \in DOMAIN b

KeyLess(a, b) == IF a.py = "int" THEN a.n < b.n ELSE a.digits < b.digits

\* A sort that puts a card before the cards of equal key.
RECURSIVE SortByOrderUnstable(_)
SortByOrderUnstable(cards) ==
    IF Len(cards) <= 1 THEN cards
    ELSE LET front == SortByOrderUnstable(SubSeq(cards, 1, Len(cards) - 1))
             last == cards[Len(cards)]
             before_last == {i \in DOMAIN front :
                                KeyLess(OrderKey(front[i]), OrderKey(last))}
             at == IF before_last = {} THEN 0
                   ELSE CHOOSE i \in before_last : \A k \in before_last : k <= i
         IN  SubSeq(front, 1, at) \o <<last>> \o SubSeq(front, at + 1, Len(front))

\* list.sort(key=...): stable, by insertion of each card after the last card
\* whose key is not greater.
RECURSIVE SortByOrder(_)
SortByOrder(cards) ==
    IF Len(cards) <= 1 THEN cards
    ELSE LET front == SortByOrder(SubSeq(cards, 1, Len(cards) - 1))
             last == cards[Len(cards)]
             before_last == {i \in DOMAIN front :
                                ~KeyLess(OrderKey(last), OrderKey(front[i]))}
             at == IF before_last = {} THEN 0
                   ELSE CHOOSE i \in before_last : \A k \in before_last : k <= i
         IN  SubSeq(front, 1, at) \o <<last>> \o SubSeq(front, at + 1, Len(front))

\* A loop that ends at the first record that does not validate.
RECURSIVE ValidCardsUntilInvalid(_, _)
ValidCardsUntilInvalid(coll, Card) ==
    IF coll = <<>> THEN <<>>
    ELSE LET rest == ValidCardsUntilInvalid(SubSeq(coll, 1, Len(coll) - 1), Card)
             metadata == coll[Len(coll)].metadata
         IN  IF Len(rest) = Len(coll) - 1 /\ DOMAIN metadata # {}
                /\ StoredCard(Card, metadata).ok
             THEN Append(rest, StoredCard(Card, metadata).val)
             ELSE rest

RECURSIVE ValidCards(_, _)
\* The loop of get_all_cards: the records that convert and validate, in the
\* collection's order; the others are skipped.
ValidCards(coll, Card) ==
    IF coll = <<>> THEN <<>>
    ELSE LET rest == ValidCards(SubSeq(coll, 1, Len(coll) - 1), Card)
             metadata == coll[Len(coll)].metadata
         IN  IF DOMAIN metadata # {} /\ StoredCard(Card, metadata).ok
             THEN Append(rest, StoredCard(Card, metadata).val)
             ELSE rest

\* get_all_cards: the valid cards, sorted by order when the first card has
\* that attribute; a RuntimeError when two sort keys cannot be compared.
GetAllCards(coll, Card) ==
    LET cards == ValidCards(coll, Card) IN
    IF cards # <<>> /\ "order" \in DOMAIN cards[1].values
    THEN IF \A i, k \in DOMAIN cards :
                i # k => Comparable(OrderKey(cards[i]), OrderKey(cards[k]))
         THEN Ok(SortByOrder(cards))
         ELSE Raise("RuntimeError")
    ELSE Ok(cards)

\* updates.dict(): every field, None for the fields the body leaves out.
UpdateDictWithUnset(updates) == updates.values

\* updates.dict(exclude_unset=True)
UpdateDict(updates) == [f \in updates.fields_set |-> updates.values[f]]

\* An update that stamps both timestamps of the record.
UpdatedMetadataRestamped(current_metadata, update_dict, now) ==
    Override(current_metadata,
             Override(update_dict,
                      [f \in {"createdAt", "updatedAt"} \cap DOMAIN current_metadata
                          |-> IsoFormat(now)]))

\* An update that leaves the record's updatedAt to the body.
UpdatedMetadataUnstamped(current_metadata, update_dict, now) ==
    Override(current_metadata, update_dict)

\* The metadata update_card merges: the stored strings, overridden by the
\* update's values and, when the record has an updatedAt, by the time of the
\* update.
UpdatedMetadata(current_metadata, update_dict, now) ==
    Override(current_metadata,
             IF "updatedAt" \in DOMAIN current_metadata
             THEN Override(update_dict, [updatedAt |-> IsoFormat(now)])
             ELSE update_dict)

\* collection.update(ids=[card_id], metadatas=[metadata]): the keys given
\* replace or extend the stored metadata.
CollectionUpdate(coll, card_id, metadata) ==
    [i \in DOMAIN coll |->
        IF coll[i].id = card_id
        THEN [id |-> card_id, metadata |-> Override(coll[i].metadata, metadata)]
        ELSE coll[i]]

\* The card update_card builds from the merged metadata after it has written
\* the store: completedAt None when it is "None", the tags evaluated.
UpdatedCard(Card, updated_metadata) ==
    LET tags == IF "tags" \in DOMAIN updated_metadata
                THEN Eval(updated_metadata["tags"]) ELSE Ok(PyNone)
        card_data ==
            [key \in DOMAIN updated_metadata |->
                CASE key = "completedAt" ->
                        IF updated_metadata[key] = PyStr("None") THEN PyNone
                        ELSE updated_metadata[key]
                  [] key = "tags" -> tags.val
                  [] OTHER -> updated_metadata[key]]
    IN  IF tags.ok THEN ValidateModel(Card, card_data) ELSE Raise("Error")

\* update_card: the collection it leaves and its result, None when no record
\* has the id or the update sets no field, the updated card, or a RuntimeError
\* raised after the store was written.
UpdateCard(coll, Card, card_id, updates, now) ==
    IF Found(coll, card_id) = {} \/ DOMAIN UpdateDict(updates) = {}
    THEN [collection |-> coll, r |-> "None"]
    ELSE LET current_metadata ==
                 coll[CHOOSE i \in Found(coll, card_id) : TRUE].metadata
             updated_metadata ==
                 UpdatedMetadata(current_metadata, UpdateDict(updates), now)
             written == CollectionUpdate(coll, card_id,
                            AllCardDictFieldsToStr(updated_metadata))
             card == UpdatedCard(Card, updated_metadata)
         IN  IF card.ok
             THEN [collection |-> written, r |-> "card", card |-> card.val]
             ELSE [collection |-> written, r |-> "raise"]

\* str.lower() of a tag; it raises for a tag that is no str.
TagLower(tag) ==
    IF tag.py # "str" THEN Raise("AttributeError")
    ELSE IF IsLiteral(tag) THEN Ok(PyStr(Lower(tag.s))) ELSE Ok(tag)

\* value.isoformat() for the values add_cards calls it on: a datetime has the
\* method, another truthy value raises.
IsoFormatOf(v) ==
    IF v.py = "datetime" THEN Ok(IsoFormat(v.t)) ELSE Raise("AttributeError")

\* Whether json.dumps accepts a value of a card dict.
JsonSerializable(v) == v.py \notin {"datetime", "enum"}

\* The body of the loop of add_cards for one card: the id generated when the
\* card has none (uuid is the next one), the timestamps set to now, the tags
\* lowered and turned into the text of their list, the three timestamps
\* formatted, the dict serialised.  Assigning an attribute that is no field of
\* the class raises.
PrepareCard(card, uuid, now) ==
    LET fields == DOMAIN card.values
        with_id == IF PyTruthy(card.values["id"]) THEN card.values
                   ELSE [card.values EXCEPT !["id"] = uuid]
        with_created == IF PyTruthy(with_id["createdAt"]) THEN with_id
                        ELSE [with_id EXCEPT !["createdAt"] = PyDatetime(now)]
        with_updated == IF "updatedAt" \in fields
                        THEN [with_created EXCEPT !["updatedAt"] = PyDatetime(now)]
                        ELSE with_created
        tags == with_updated["tags"]
        iso_fields == {f \in {"createdAt", "updatedAt", "completedAt"} \cap fields :
                          PyTruthy(with_updated[f])}
    IN  IF "id" \notin fields \/ "createdAt" \notin fields THEN Raise("ValueError")
        ELSE IF "tags" \in fields
                /\ (tags.py # "list" \/ \E i \in DOMAIN tags.xs : ~TagLower(tags.xs[i]).ok)
        THEN Raise("TypeError")
        ELSE IF \E f \in iso_fields : ~IsoFormatOf(with_updated[f]).ok
        THEN Raise("AttributeError")
        ELSE LET card_dict ==
                     [f \in fields |->
                         CASE f \in iso_fields -> IsoFormatOf(with_updated[f]).val
                           [] f = "tags" ->
                                 ListRepr([i \in DOMAIN tags.xs |->
                                              TagLower(tags.xs[i]).val])
                           [] OTHER -> with_updated[f]]
             IN  IF \E f \in fields : ~JsonSerializable(card_dict[f])
                 THEN Raise("TypeError")
                 ELSE Ok([id |-> card_dict["id"],
                          metadata |-> AllCardDictFieldsToStr(card_dict)])

\* The number of cards before position i that are given a generated id.
RECURSIVE GeneratedBefore(_, _)
GeneratedBefore(cards, i) ==
    IF i <= 1 THEN 0
    ELSE GeneratedBefore(cards, i - 1)
            + (IF "id" \in DOMAIN cards[i - 1].values
                  /\ ~PyTruthy(cards[i - 1].values["id"]) THEN 1 ELSE 0)

\* The records add_cards prepares, each a result of PrepareCard.
Prepared(cards, uuids_used, now) ==
    [i \in DOMAIN cards |->
        PrepareCard(cards[i], Uuid(uuids_used + GeneratedBefore(cards, i) + 1), now)]

\* An add that leaves out the cards it cannot prepare and stores the others.
AddCardsSkippingUnprepared(coll, cards, uuids_used, now, on_existing) ==
    LET prepared == Prepared(cards, uuids_used, now)
        done == SelectSeq([i \in DOMAIN cards |-> prepared[i]], LAMBDA p : p.ok)
        records == [i \in DOMAIN done |-> done[i].val]
    IN  IF records = <<>> THEN Raise("RuntimeError")
        ELSE IF \E i \in DOMAIN records : ~IsPyStr(records[i].id)
        THEN Raise("RuntimeError")
        ELSE IF \E i, k \in DOMAIN records : i # k /\ records[i].id = records[k].id
        THEN Raise("RuntimeError")
        ELSE IF on_existing = "raise"
                /\ \E i \in DOMAIN records : Found(coll, records[i].id) # {}
        THEN Raise("RuntimeError")
        ELSE Ok([collection |-> coll \o SelectSeq(records,
                                    LAMBDA r : Found(coll, r.id) = {}),
                 card_ids |-> [i \in DOMAIN records |-> records[i].id]])

\* add_cards: the collection it leaves and the ids it returns, or a
\* RuntimeError, raised when a card cannot be prepared and when collection.add
\* refuses the batch: no record, an id that is no str, an id twice in the
\* batch.  For an id the collection holds already, collection.add raises or
\* leaves the stored record alone, as the installed store decides
\* (on_existing).
AddCards(coll, cards, uuids_used, now, on_existing) ==
    LET prepared == Prepared(cards, uuids_used, now)
        records == [i \in DOMAIN cards |-> prepared[i].val]
        fresh == {i \in DOMAIN cards : Found(coll, records[i].id) = {}}
    IN  IF \E i \in DOMAIN cards : ~prepared[i].ok THEN Raise("RuntimeError")
        ELSE IF cards = <<>> THEN Raise("RuntimeError")
        ELSE IF \E i \in DOMAIN cards : ~IsPyStr(records[i].id)
        THEN Raise("RuntimeError")
        ELSE IF \E i, k \in DOMAIN cards : i # k /\ records[i].id = records[k].id
        THEN Raise("RuntimeError")
        ELSE IF fresh # DOMAIN cards /\ on_existing = "raise"
        THEN Raise("RuntimeError")
        ELSE Ok([collection |-> coll \o SelectSeq(records,
                                    LAMBDA r : Found(coll, r.id) = {}),
                 card_ids |-> [i \in DOMAIN cards |-> records[i].id]])

\* delete_card: collection.delete(ids=[card_id]) removes the records with that
\* id; the method returns True.
DeleteCard(coll, card_id) == SelectSeq(coll, LAMBDA r : r.id # card_id)

\* delete_all_cards: collection.delete with the ids of every record.
DeleteAllCards(coll) ==
    LET card_ids == {coll[i].id : i \in DOMAIN coll}
    IN  SelectSeq(coll, LAMBDA r : r.id \notin card_ids)

(***************************************************************************)
(* The state machine.                                                      *)
(***************************************************************************)
Snapshot(sd, attributes, globals) ==
    [schema_data |-> sd, dm |-> attributes, exported |-> globals]

\* A handler that looks the name up in models.py whenever it runs.
ModelLookedUp(n) == exported[n]

\* The class a request handler finds under a name of main.py or database.py:
\* the object "from models import ..." bound when the module was imported.
ModelSeenByRequest(n) == main_import[n]

\* A record add_cards stored in an earlier run of the service: the store is
\* persistent.
PersistedCard ==
    [id |-> PyStr("c1"),
     metadata |-> [id |-> PyStr("c1"), title |-> PyStr("Write docs"),
                   description |-> PyStr("README"), status |-> PyStr("planned"),
                   order |-> Digits(1),
                   tags |-> ListRepr(<<PyStr("backend")>>),
                   createdAt |-> IsoFormat(0), updatedAt |-> IsoFormat(0)]]

\* The state when the interpreter starts to import the modules, for a set of
\* documents the schema file may hold and a set of contents of the store.
InitFrom(documents, stores) ==
    /\ file \in documents
    /\ schema_data = JNull
    /\ dynamic_models = "None"
    /\ dm = [n \in ModelNames |-> Unset]
    /\ exported = [n \in ModelNames |-> Unset]
    /\ main_import = [n \in ModelNames |-> Unset]
    /\ phase = "boot"
    /\ reload_pc = 0
    /\ ngen = 0
    /\ response = [op |-> "none", status |-> 0]
    /\ loaded = [doc |-> Absent, raised |-> "not called"]
    /\ before = Snapshot(JNull, [n \in ModelNames |-> Unset],
                         [n \in ModelNames |-> Unset])
    /\ collection \in stores
    /\ clock = 1
    /\ uuids = 0
    /\ prior = collection

Init == InitFrom(Documents, {<<PersistedCard>>})

\* Somebody edits, replaces or removes card.schema.json.  Only a reload reads
\* the file after startup, once, so an edit made while a reload runs is an edit
\* made just before or just after it.
EditSchemaFile(documents) ==
    /\ phase = "serving" /\ reload_pc = 0
    /\ \E d \in documents : d # file /\ file' = d
    /\ UNCHANGED <<schema_data, dynamic_models, dm, exported, main_import,
                   phase, reload_pc, ngen, response, loaded, before>>
    /\ UNCHANGED store_vars

\* Import of models.py, database.py and main.py: DynamicCardModel() loads the
\* schema and derives the classes; when that raises, dynamic_models is None and
\* the five names are bound to the fallback.  main.py and database.py bind the
\* names they import, and the server starts in either case.
Startup ==
    /\ phase = "boot"
    /\ LET load == LoadSchema(JNull, file)
           created == CreateModels(load.schema_data)
           success == load.raised = "none" /\ created.ok
       IN  /\ schema_data' = IF success THEN load.schema_data ELSE JNull
           /\ dynamic_models' = IF success THEN "object" ELSE "None"
           /\ dm' = IF success THEN CreatedModels(1, load.schema_data) ELSE dm
           /\ exported' = IF success THEN CreatedModels(1, load.schema_data)
                          ELSE FallbackModels
           /\ main_import' = exported'
           /\ ngen' = IF success THEN 1 ELSE 0
    /\ phase' = "serving"
    /\ response' = [op |-> "startup", status |-> 0]
    /\ loaded' = [doc |-> file, raised |-> LoadSchema(JNull, file).raised]
    /\ UNCHANGED <<file, reload_pc, before>>
    /\ UNCHANGED store_vars

\* POST /api/schema/reload, entry: 500 when dynamic_models is None, else
\* models.reload_models calls dynamic_models.reload_models.
ReloadBegin ==
    /\ phase = "serving" /\ reload_pc = 0 /\ ngen <= MaxReloads
    /\ before' = Snapshot(schema_data, dm, exported)
    /\ IF dynamic_models = "None"
       THEN /\ response' = [op |-> "reload", status |-> 500]
            /\ reload_pc' = 0
       ELSE /\ response' = response
            /\ reload_pc' = 1
    /\ UNCHANGED <<file, schema_data, dynamic_models, dm, exported,
                   main_import, phase, ngen, loaded>>
    /\ UNCHANGED store_vars

\* schema_loader.reload_schema(): an exception ends the request with 500.
ReloadLoad ==
    /\ reload_pc = 1
    /\ LET r == ReloadSchema(schema_data, file)
       IN  /\ schema_data' = r.schema_data
           /\ loaded' = [doc |-> file, raised |-> LoadSchema(schema_data, file).raised]
           /\ IF r.raised = "none"
              THEN reload_pc' = 2 /\ response' = response
              ELSE reload_pc' = 0 /\ response' = [op |-> "reload", status |-> 500]
    /\ UNCHANGED <<file, dynamic_models, dm, exported, main_import, phase,
                   ngen, before>>
    /\ UNCHANGED store_vars

\* _create_models up to "self.Card = create_model('Card', ...)": an exception
\* ends the request with 500 before any attribute is assigned.
ReloadCreateCard ==
    /\ reload_pc = 2
    /\ IF CreateModels(schema_data).ok
       THEN /\ ngen' = ngen + 1
            /\ dm' = [dm EXCEPT !["Card"] =
                         CreateClass("Card", ngen + 1, Unset, schema_data)]
            /\ reload_pc' = 3
            /\ response' = response
       ELSE /\ reload_pc' = 0
            /\ response' = [op |-> "reload", status |-> 500]
            /\ UNCHANGED <<ngen, dm>>
    /\ UNCHANGED <<file, schema_data, dynamic_models, exported, main_import,
                   phase, loaded, before>>
    /\ UNCHANGED store_vars

\* The assignments of self.CardList, self.CardUpdate, self.CardResponse and
\* self.CardsResponse, one a step.
ReloadCreateNext ==
    /\ reload_pc \in 3..6
    /\ LET n == NameOrder[reload_pc - 1]
       IN  dm' = [dm EXCEPT ![n] = CreateClass(n, ngen, dm["Card"], schema_data)]
    /\ reload_pc' = reload_pc + 1
    /\ UNCHANGED <<file, schema_data, dynamic_models, exported, main_import,
                   phase, ngen, response, loaded, before>>
    /\ UNCHANGED store_vars

\* models.reload_models rebinds the module's five globals, one a step, and the
\* handler answers 200 after the last.
ReloadExport ==
    /\ reload_pc \in 7..11
    /\ LET n == NameOrder[reload_pc - 6]
       IN  exported' = [exported EXCEPT ![n] = dm[n]]
    /\ IF reload_pc = 11
       THEN reload_pc' = 0 /\ response' = [op |-> "reload", status |-> 200]
       ELSE reload_pc' = reload_pc + 1 /\ response' = response
    /\ UNCHANGED <<file, schema_data, dynamic_models, dm, main_import, phase,
                   ngen, loaded, before>>
    /\ UNCHANGED store_vars

\* GET /api/schema
SchemaInfoRequest ==
    /\ phase = "serving"
    /\ response' = IF dynamic_models = "None"
                   THEN [op |-> "schema", status |-> 500]
                   ELSE [op |-> "schema", status |-> 200,
                         data |-> GetSchemaInfo(schema_data)]
    /\ UNCHANGED <<file, schema_data, dynamic_models, dm, exported,
                   main_import, phase, reload_pc, ngen, loaded, before>>
    /\ UNCHANGED store_vars

(***************************************************************************)
(* The card handlers of main.py.  The store object db is initialised.      *)
(***************************************************************************)
\* The Card classes the envelope classes among the names used refer to.
ReferencedCards(n) ==
    LET class == ModelSeenByRequest(n) IN
    CASE class.name \in {"CardResponse", "CardsResponse"} ->
            {class.fields["data"].type.card.gen}
      [] class.name = "CardList" -> {class.fields["cards"].type.card.gen}
      [] OTHER -> {}

\* The answer of a card request: the status code, the cards of the body, what
\* was asked, and the derivations of the classes the handler worked with.
Answer(op, status, data, request, used) ==
    [op |-> op, status |-> status, data |-> data, request |-> request,
     models |-> UNION {{ModelSeenByRequest(n).gen} \cup ReferencedCards(n) :
                          n \in used}]

\* CardResponse(..., data=card) and CardsResponse(..., data=cards): a card is
\* accepted as data when it is an instance of the Card class the envelope
\* refers to; BaseModel has no data field and takes anything.
EnvelopeAccepts(envelope, cards) ==
    "data" \in DOMAIN envelope.fields
        => \A i \in DOMAIN cards :
               cards[i].class = envelope.fields["data"].type.card

\* The cards in the body of an answer.
EnvelopeBody(envelope, cards) ==
    IF "data" \in DOMAIN envelope.fields
    THEN [i \in DOMAIN cards |-> cards[i].values] ELSE <<>>

\* GET /api/cards
GetCardsRequest ==
    /\ phase = "serving"
    /\ LET cards == GetAllCards(collection, ModelSeenByRequest("Card"))
           envelope == ModelSeenByRequest("CardsResponse")
           request == [all |-> TRUE]
           used == {"Card", "CardsResponse"}
       IN  response' =
               IF cards.ok /\ EnvelopeAccepts(envelope, cards.val)
               THEN Answer("get_cards", 200, EnvelopeBody(envelope, cards.val),
                           request, used)
               ELSE Answer("get_cards", 500, <<>>, request, used)
    /\ prior' = collection
    /\ UNCHANGED <<collection, clock, uuids>>
    /\ UNCHANGED model_vars

\* GET /api/cards/{card_id}
GetCardRequest(card_ids) ==
    /\ phase = "serving"
    /\ \E card_id \in card_ids :
        LET card == GetCardById(collection, ModelSeenByRequest("Card"), card_id)
            envelope == ModelSeenByRequest("CardResponse")
            request == [card_id |-> card_id]
            used == {"Card", "CardResponse"}
        IN  response' =
                CASE card.r = "raise" -> Answer("get_card", 500, <<>>, request, used)
                  [] card.r = "None" -> Answer("get_card", 404, <<>>, request, used)
                  [] OTHER ->
                        IF EnvelopeAccepts(envelope, <<card.card>>)
                        THEN Answer("get_card", 200,
                                    EnvelopeBody(envelope, <<card.card>>),
                                    request, used)
                        ELSE Answer("get_card", 500, <<>>, request, used)
    /\ prior' = collection
    /\ UNCHANGED <<collection, clock, uuids>>
    /\ UNCHANGED model_vars

\* The readings datetime.utcnow() can give next: the clock does not run
\* backwards and may stand still between two readings.
Readings == {clock} \cup {t \in {clock + 1} : t <= MaxClock}

\* update_card of main.py: the status, the card of the body and the collection
\* it leaves.  FastAPI answers 422 when the body is no CardUpdate.
UpdateCardHandler(card_id, payload, now) ==
    LET Card == ModelSeenByRequest("Card")
        updates == ValidateModel(ModelSeenByRequest("CardUpdate"), payload)
        existing_card == GetCardById(collection, Card, card_id)
        updated == UpdateCard(collection, Card, card_id, updates.val, now)
        envelope == ModelSeenByRequest("CardResponse")
    IN  CASE ~updates.ok ->
                [status |-> 422, data |-> <<>>, collection |-> collection]
          [] existing_card.r = "raise" ->
                [status |-> 500, data |-> <<>>, collection |-> collection]
          [] existing_card.r = "None" ->
                [status |-> 404, data |-> <<>>, collection |-> collection]
          [] OTHER ->
                IF updated.r = "card" /\ EnvelopeAccepts(envelope, <<updated.card>>)
                THEN [status |-> 200,
                      data |-> EnvelopeBody(envelope, <<updated.card>>),
                      collection |-> updated.collection]
                ELSE [status |-> 500, data |-> <<>>,
                      collection |-> updated.collection]

\* PUT /api/cards/{card_id}
UpdateCardRequest(card_ids, payloads) ==
    /\ phase = "serving"
    /\ \E card_id \in card_ids, payload \in payloads, now \in Readings :
        LET handled == UpdateCardHandler(card_id, payload, now)
        IN  /\ response' = Answer("update_card", handled.status, handled.data,
                                  [card_id |-> card_id, payload |-> payload],
                                  {"Card", "CardUpdate", "CardResponse"})
            /\ collection' = handled.collection
            /\ clock' = now
    /\ prior' = collection
    /\ UNCHANGED uuids
    /\ UNCHANGED model_vars

\* The number of cards of a request body that come without an id.
WithoutId(cards) ==
    Cardinality({i \in DOMAIN cards :
                    "id" \notin DOMAIN cards[i] \/ ~PyTruthy(cards[i]["id"])})

\* put_cards of main.py: the status, the collection it leaves and the ids
\* add_cards returned to it (the answer carries their number only).  FastAPI
\* answers 422 when the body is no CardList; a CardList without the attribute
\* cards makes the handler raise before it reaches the store.
PutCardsHandler(cards, now, on_existing) ==
    LET CardList == ModelSeenByRequest("CardList")
        card_class == CardList.fields["cards"].type.card
        validated == [i \in DOMAIN cards |-> ValidateModel(card_class, cards[i])]
        added == AddCards(collection, [i \in DOMAIN cards |-> validated[i].val],
                          uuids, now, on_existing)
    IN  IF "cards" \notin DOMAIN CardList.fields
        THEN [status |-> 500, collection |-> collection, card_ids |-> <<>>]
        ELSE IF \E i \in DOMAIN cards : ~validated[i].ok
        THEN [status |-> 422, collection |-> collection, card_ids |-> <<>>]
        ELSE IF ~added.ok
        THEN [status |-> 500, collection |-> collection, card_ids |-> <<>>]
        ELSE [status |-> 200, collection |-> added.val.collection,
              card_ids |-> added.val.card_ids]

\* POST /api/cards.  Ids below uuids + 1 are not generated again.
PutCardsRequest(bodies) ==
    /\ phase = "serving"
    /\ \E cards \in bodies, now \in Readings, on_existing \in {"raise", "ignore"} :
        /\ uuids + WithoutId(cards) <= MaxCards
        /\ LET handled == PutCardsHandler(cards, now, on_existing)
           IN  /\ Len(handled.collection) <= MaxCards
               /\ response' = Answer("put_cards", handled.status, <<>>,
                                     [cards |-> cards,
                                      card_ids |-> handled.card_ids],
                                     {"CardList", "CardResponse"})
               /\ collection' = handled.collection
        /\ clock' = now
        /\ uuids' = uuids + WithoutId(cards)
    /\ prior' = collection
    /\ UNCHANGED model_vars

\* DELETE /api/cards/{card_id}: 404 when get_card_by_id finds no record, 500
\* when it raises, else the record is deleted.
DeleteCardRequest(card_ids) ==
    /\ phase = "serving"
    /\ \E card_id \in card_ids :
        LET existing_card ==
                GetCardById(collection, ModelSeenByRequest("Card"), card_id)
            status == CASE existing_card.r = "raise" -> 500
                        [] existing_card.r = "None" -> 404
                        [] OTHER -> 200
        IN  /\ response' = Answer("delete_card", status, <<>>,
                                  [card_id |-> card_id], {"Card"})
            /\ collection' = IF status = 200 THEN DeleteCard(collection, card_id)
                              ELSE collection
    /\ prior' = collection
    /\ UNCHANGED <<clock, uuids>>
    /\ UNCHANGED model_vars

\* DELETE /api/cards: the cards are listed for their number, then every record
\* is deleted; 500 when the listing raises.
DeleteAllCardsRequest ==
    /\ phase = "serving"
    /\ LET cards == GetAllCards(collection, ModelSeenByRequest("Card"))
       IN  /\ response' = Answer("delete_all_cards",
                                 IF cards.ok THEN 200 ELSE 500, <<>>,
                                 [all |-> TRUE], {"Card"})
           /\ collection' = IF cards.ok THEN DeleteAllCards(collection)
                             ELSE collection
    /\ prior' = collection
    /\ UNCHANGED <<clock, uuids>>
    /\ UNCHANGED model_vars

CardOps ==
    {"get_cards", "get_card", "update_card", "put_cards", "delete_card",
     "delete_all_cards"}

(***************************************************************************)
(* Requests of the model.                                                  *)
(***************************************************************************)
CardIds == {PyStr("c1"), PyStr("c0")}

EmptyPayload == [f \in {} |-> PyNone]

\* Bodies of PUT /api/cards/{card_id}, as FastAPI parses them.
StatusDone == [status |-> PyStr("done")]

CarriesIdentity ==
    [title |-> PyStr("Ship it"), id |-> PyStr("c9"), createdAt |-> IsoFormat(2)]

UpdatePayloads ==
    {StatusDone, CarriesIdentity, EmptyPayload, [id |-> PyStr("c9")],
     [createdAt |-> IsoFormat(2), status |-> PyStr("blocked")]}

\* Bodies of POST /api/cards: a card with all its fields, as the API's test
\* script sends it, and a card without id.
FullCard(id) ==
    [id |-> PyStr(id), title |-> PyStr("Ship it"), description |-> PyStr("Release"),
     status |-> PyStr("planned"), order |-> PyInt(2),
     tags |-> PyList(<<PyStr("Backend")>>),
     createdAt |-> IsoFormat(1), updatedAt |-> IsoFormat(1)]

NewCard ==
    [title |-> PyStr("Ship it"), description |-> PyStr("Release"),
     status |-> PyStr("planned"), order |-> PyInt(0),
     tags |-> PyList(<<PyStr("Backend")>>)]

(***************************************************************************)
(* The schema loader and the reload handler on every document.             *)
(***************************************************************************)
Next ==
    \/ EditSchemaFile(Documents)
    \/ Startup
    \/ ReloadBegin
    \/ ReloadLoad
    \/ ReloadCreateCard
    \/ ReloadCreateNext
    \/ ReloadExport
    \/ SchemaInfoRequest

Spec == Init /\ [][Next]_vars

(***************************************************************************)
(* The service: card requests between the steps of reloads.                *)
(***************************************************************************)
ServiceDocuments ==
    {Absent, Json(NoProperties), Json(CardSchemaA), Json(CardSchemaB)}

InitService == InitFrom(ServiceDocuments, {<<PersistedCard>>})

NextService ==
    \/ EditSchemaFile(ServiceDocuments)
    \/ Startup
    \/ ReloadBegin
    \/ ReloadLoad
    \/ ReloadCreateCard
    \/ ReloadCreateNext
    \/ ReloadExport
    \/ SchemaInfoRequest
    \/ GetCardsRequest
    \/ GetCardRequest({PyStr("c1")})
    \/ UpdateCardRequest({PyStr("c1")}, {StatusDone})
    \/ PutCardsRequest({<<FullCard("c1")>>})

SpecService == InitService /\ [][NextService]_vars

(***************************************************************************)
(* Derivation: the service started on each schema of two families, and     *)
(* updates sent to it.                                                     *)
(***************************************************************************)
PBoolean == JDict([type |-> JStr("boolean")])

PArray == JDict([type |-> JStr("array")])

PIntegers == JDict([type |-> JStr("array"), items |-> PInteger])

PObject == JDict([type |-> JStr("object")])

NoType == JDict([description |-> JStr("Priority")])

\* An enum whose values differ only in what upper().replace('-', '_') removes.
PColliding ==
    JDict([type |-> JStr("string"), description |-> JStr("Status"),
           enum |-> JList(<<JStr("in-progress"), JStr("in_progress")>>)])

FieldSpecs ==
    {PString, PDateTime, PInteger, PTags, PArray, PIntegers, PBoolean,
     PNumber, PObject, NoType, JStr("high"),
     PStatus("Status"), PStatus("status"),
     PStatus("Current status of the card"), PColliding}

\* A title and one more property, of every field spec.
OneOfEach ==
    {SchemaDocument("Kanban Board",
         CardItem([title |-> PString, field |-> field_spec], required)) :
        field_spec \in FieldSpecs,
        required \in {<<>>, <<JStr("title")>>, <<JStr("field")>>,
                      <<JStr("title"), JStr("field")>>}}

IdentitySpecs ==
    [id |-> PString, createdAt |-> PDateTime, title |-> PString,
     status |-> PStatus("Current status of the card")]

\* Every choice of the properties id, createdAt, title and status.
WithIdentity ==
    {SchemaDocument("Kanban Board",
         CardItem([f \in declared |-> IdentitySpecs[f]], required)) :
        declared \in SUBSET DOMAIN IdentitySpecs \ {{}},
        required \in {<<>>, <<JStr("title")>>}}

DeriveDocuments == {Json(v) : v \in OneOfEach \cup WithIdentity}

InitDerive == InitFrom(DeriveDocuments, {<<PersistedCard>>})

NextDerive ==
    \/ Startup
    \/ GetCardsRequest
    \/ UpdateCardRequest(CardIds, UpdatePayloads)
    \/ PutCardsRequest({<<NewCard>>})

SpecDerive == InitDerive /\ [][NextDerive]_vars

(***************************************************************************)
(* The store: the service started on a card schema, with updates of a      *)
(* stored card between reads, deletions and additions; no reload.          *)
(***************************************************************************)
StoreDocuments == {Json(CardSchemaA), Json(CardSchemaB)}

StatusArchived == [status |-> PyStr("archived")]

CompletedOnly == [completedAt |-> IsoFormat(1)]

\* {"order": null}
OrderNull == [order |-> PyNone]

\* The body the API's test script sends: a status and a completedAt.
DoneAt == [status |-> PyStr("done"), completedAt |-> IsoFormat(1)]

\* {"tags": ["Urgent"]}, as the MCP tool sends tags.
TagsOnly == [tags |-> PyList(<<PyStr("Urgent")>>)]

\* One body carries a createdAt beside the status, one sets no field.
StorePayloads ==
    {StatusDone, StatusArchived, CompletedOnly, OrderNull,
     [createdAt |-> IsoFormat(2), status |-> PyStr("done")],
     DoneAt, TagsOnly, EmptyPayload}

InitStore == InitFrom(StoreDocuments, {<<PersistedCard>>})

NextStore ==
    \/ Startup
    \/ GetCardRequest(CardIds)
    \/ UpdateCardRequest(CardIds, StorePayloads)
    \/ PutCardsRequest({<<FullCard("c1")>>})
    \/ DeleteCardRequest(CardIds)

SpecStore == InitStore /\ [][NextStore]_vars

(***************************************************************************)
(* The life of cards: cards added without id, alone and in a batch, read,  *)
(* listed, spoilt by an update and deleted.                                *)
(***************************************************************************)
\* The persistent store when the service starts: empty, or one card.
Stores == {<<>>, <<PersistedCard>>}

\* A card with the fields CardSchemaB requires and the tags add_cards reads.
Minimal ==
    [title |-> PyStr("Ship it"), status |-> PyStr("planned"),
     tags |-> PyList(<<>>)]

\* A card with the fields CardSchemaB requires and no tags: its tags are None.
Untagged == [title |-> PyStr("Ship it"), status |-> PyStr("planned")]

LifecycleBodies ==
    {<<NewCard>>, <<NewCard, NewCard>>, <<Minimal>>, <<NewCard, Untagged>>}

InitLifecycle == InitFrom(StoreDocuments, Stores)

NextLifecycle ==
    \/ Startup
    \/ GetCardsRequest
    \/ GetCardRequest({PyStr("c1"), Uuid(1)})
    \/ UpdateCardRequest({PyStr("c1"), Uuid(1)}, {OrderNull})
    \/ PutCardsRequest(LifecycleBodies)
    \/ DeleteCardRequest({PyStr("c1"), Uuid(1)})
    \/ DeleteAllCardsRequest

SpecLifecycle == InitLifecycle /\ [][NextLifecycle]_vars

(***************************************************************************)
(* Reload and load: C1, C2, C3, C5.                                        *)
(***************************************************************************)
\* The last request to finish was a reload and no other reload has begun.
ReloadFinished == phase = "serving" /\ reload_pc = 0 /\ response.op = "reload"

LacksCardPath(doc) == doc.disk = "json" /\ ~HasCardPath(doc.value)

\* C1: a reload that reads a document without properties.cards.items.properties
\* fails, and the loader then holds the schema it held before the reload.
C1_MalformedReloadKeepsSchema ==
    (ReloadFinished /\ LacksCardPath(loaded.doc))
        => response.status = 500 /\ schema_data = before.schema_data

\* C2: a reload that meets a schema-level error (document absent, not JSON, or
\* without the card properties path) answers failure, and every reload that
\* answers failure leaves the attributes of dynamic_models and the globals of
\* models.py as they were when it began.
C2_FailedReloadKeepsModels ==
    ReloadFinished =>
        /\ (loaded.doc \in {Absent, NotJson} \/ LacksCardPath(loaded.doc))
               => response.status = 500
        /\ response.status = 500
               => dm = before.dm /\ exported = before.exported

\* C2 witness: a reload of a live service failed on a document of the wrong
\* shape, after the loader had taken that document in.
C2_Witness ==
    /\ ReloadFinished /\ response.status = 500 /\ dynamic_models = "object"
    /\ LacksCardPath(loaded.doc) /\ schema_data = loaded.doc.value
    /\ schema_data # before.schema_data

\* C3: _load_schema raises a kind of its own for an absent document, for one
\* that is not JSON and for one without the card properties path, and returns
\* only for a JSON document that has the path.
C3_LoadErrorKinds ==
    loaded.raised # "not called" =>
        /\ loaded.doc = Absent <=> loaded.raised = "FileNotFoundError"
        /\ loaded.doc = NotJson
               <=> loaded.raised = "RuntimeError: Invalid JSON in schema file"
        /\ LacksCardPath(loaded.doc)
               <=> loaded.raised = "RuntimeError: Failed to load schema"
        /\ loaded.raised = "none"
               <=> (loaded.doc.disk = "json" /\ HasCardPath(loaded.doc.value))

\* The values a complete document can leave in schema_data.
CompleteSchemas ==
    {JNull} \cup {d.value : d \in {x \in Documents : x.disk = "json"}}

\* C5: the schema held by the loader is at every moment a complete document:
\* while a reload runs it is the schema held before the reload or the whole
\* document the reload read, and what GET /api/schema reports is the
\* information of one complete document.
C5_SchemaSwappedWhole ==
    /\ schema_data \in CompleteSchemas
    /\ reload_pc # 0 =>
           \/ schema_data = before.schema_data
           \/ reload_pc >= 2 /\ schema_data = loaded.doc.value
    /\ (response.op = "schema" /\ response.status = 200)
           => response.data \in {GetSchemaInfo(sd) : sd \in CompleteSchemas}

\* C5 witness: GET /api/schema answered while a reload was between its read of
\* a changed document and the end of the derivation.
C5_Witness ==
    /\ reload_pc \in 2..11 /\ schema_data # before.schema_data
    /\ IsDict(before.schema_data) /\ IsDict(schema_data)
    /\ response.op = "schema" /\ response.status = 200
    /\ response.data = GetSchemaInfo(schema_data)
    /\ response.data # GetSchemaInfo(before.schema_data)

(***************************************************************************)
(* Startup and the classes requests work with: C4, C6.                     *)
(***************************************************************************)
\* The import of models.py ended with dynamic_models = None.
StartupFailed == phase = "serving" /\ dynamic_models = "None"

C6_OneModelSet ==
    /\ \A n, m \in ModelNames :
           ModelSeenByRequest(n).gen = ModelSeenByRequest(m).gen
    /\ response.op \in CardOps => Cardinality(response.models) = 1

\* C6 witness: a card request was answered while a reload had rebound some of
\* the globals of models.py and not yet the others.
C6_Witness ==
    /\ reload_pc \in 8..11
    /\ \E n, m \in ModelNames : exported[n].gen # exported[m].gen
    /\ response.op \in CardOps /\ response.status = 200

(***************************************************************************)
(* The derived classes: C7, C8, C9, C10.                                   *)
(***************************************************************************)
\* The object at properties.cards.items of a document that has the path.
CardItemOf(v) == v.m["properties"].m["cards"].m["items"]

\* The names declared under properties.cards.items.properties.
Declared(v) == DOMAIN CardItemOf(v).m["properties"].m

\* The names in the required list of the card item.
RequiredNames(v) ==
    LET required == CardItemOf(v).m["required"].xs
    IN  {f \in Declared(v) \cup {"id", "createdAt", "field", "title"} :
            \E i \in DOMAIN required : required[i] = JStr(f)}

\* C7: the Card class derived from a well-formed schema has exactly the
\* declared fields; a field is mandatory (no default, a card without it is
\* rejected) if and only if the required list names it, and every other field
\* is optional and None when it is not given.
C7_FullRecordType ==
    phase = "serving" =>
        /\ dynamic_models = "object"
        /\ LET Card == ModelSeenByRequest("Card") IN
           /\ DOMAIN Card.fields = Declared(file.value)
           /\ \A f \in DOMAIN Card.fields :
                  IF f \in RequiredNames(file.value)
                  THEN /\ ~Card.fields[f].optional
                       /\ Card.fields[f].default = "Ellipsis"
                       /\ ~ValidateField(Card.fields[f], EmptyPayload, f).ok
                  ELSE /\ Card.fields[f].optional
                       /\ Card.fields[f].default = "None"
                       /\ ValidateField(Card.fields[f], EmptyPayload, f) = Ok(PyNone)

\* C7 witness: a class derived with a mandatory and an optional field.
C7_Witness ==
    /\ phase = "serving" /\ dynamic_models = "object"
    /\ \E f, g \in DOMAIN ModelSeenByRequest("Card").fields :
           /\ f \in RequiredNames(file.value)
           /\ g \notin RequiredNames(file.value)

\* C8: the CardUpdate class derived from a well-formed schema has exactly the
\* declared fields other than id and createdAt, each optional; and every
\* PUT /api/cards/{card_id}, whatever its body carries, leaves the id and the
\* createdAt of every stored record as they were.
C8_UpdateRecordType ==
    phase = "serving" =>
        /\ LET CardUpdate == ModelSeenByRequest("CardUpdate") IN
           /\ DOMAIN CardUpdate.fields = Declared(file.value) \ {"id", "createdAt"}
           /\ \A f \in DOMAIN CardUpdate.fields :
                  /\ CardUpdate.fields[f].optional
                  /\ ValidateField(CardUpdate.fields[f], EmptyPayload, f) = Ok(PyNone)
        /\ response.op = "update_card" =>
               /\ Len(collection) = Len(prior)
               /\ \A i \in DOMAIN collection :
                      /\ collection[i].id = prior[i].id
                      /\ \A key \in {"id", "createdAt"} :
                             /\ key \in DOMAIN collection[i].metadata
                             /\ key \in DOMAIN prior[i].metadata
                             /\ collection[i].metadata[key] = prior[i].metadata[key]

\* C8 witness: an update whose body carried an id and a createdAt was answered
\* with 200 and changed the stored record.
C8_Witness ==
    /\ response.op = "update_card" /\ response.status = 200
    /\ {"id", "createdAt"} \subseteq DOMAIN response.request.payload
    /\ collection # prior

\* A property whose type value is missing or none of the four the mapping knows.
Unrecognised(field_spec) ==
    \/ ~IsDict(field_spec)
    \/ DictGetNone(field_spec, "type")
           \notin {JStr("string"), JStr("integer"), JStr("array"), JStr("boolean")}

\* The document v without the property p.
Without(v, p) ==
    LET cards == v.m["properties"].m["cards"]
        card_properties == CardItemOf(v).m["properties"].m
        card_item == [CardItemOf(v).m EXCEPT !["properties"] =
                         JDict([f \in DOMAIN card_properties \ {p} |->
                                   card_properties[f]])]
    IN  JDict([v.m EXCEPT !["properties"] =
                  JDict([cards |-> JDict([cards.m EXCEPT !["items"] =
                                             JDict(card_item)])])])

\* C9: when a property of the schema has an unrecognised or missing type, the
\* derivation succeeds, the property is of type Any in Card and CardUpdate,
\* and every other property has in both classes the definition it has in the
\* classes derived from the schema without that property.
C9_UnknownTypeTolerated ==
    phase = "serving" =>
        \A p \in Declared(file.value) :
            Unrecognised(CardItemOf(file.value).m["properties"].m[p]) =>
                /\ dynamic_models = "object"
                /\ ModelSeenByRequest("Card").fields[p].type = TAny
                /\ ModelSeenByRequest("CardUpdate").fields[p].type = TAny
                /\ LET without == CreateModels(Without(file.value, p))
                   IN  /\ without.ok
                       /\ \A q \in Declared(file.value) \ {p} :
                              /\ ModelSeenByRequest("Card").fields[q]
                                     = without.val.Card[q]
                              /\ ModelSeenByRequest("CardUpdate").fields[q]
                                     = without.val.CardUpdate[q]

\* C9 witness: classes derived from a schema with a property of type "number"
\* beside a required title.
C9_Witness ==
    /\ phase = "serving" /\ dynamic_models = "object"
    /\ "field" \in Declared(file.value)
    /\ CardItemOf(file.value).m["properties"].m["field"] = PNumber
    /\ "title" \in RequiredNames(file.value)
    /\ ModelSeenByRequest("Card").fields["title"] = Required(TStr)

\* The texts a status may be given as.
ProbeValues ==
    {"research", "in-progress", "in_progress", "done", "blocked", "planned",
     "archived"}

\* Whether a type is the field kind the mapping is said to give a property.
KindAsClaimed(field_spec, type) ==
    LET t == DictGetNone(field_spec, "type") IN
    CASE t = JStr("string") /\ DictGetNone(field_spec, "format") = JStr("date-time")
            -> type = TDatetime
      [] t = JStr("string") /\ "enum" \in DOMAIN field_spec.m ->
            \A v \in ProbeValues :
                Validate(type, PyStr(v)).ok
                    <=> \E i \in DOMAIN field_spec.m["enum"].xs :
                            field_spec.m["enum"].xs[i] = JStr(v)
      [] t = JStr("string") -> type = TStr
      [] t = JStr("integer") -> type = TInt
      [] t = JStr("array") ->
            IF DictGetNone(DictGet(field_spec, "items"), "type") = JStr("string")
            THEN type = TListStr ELSE type = TListAny
      [] t = JStr("boolean") -> type = TBool
      [] OTHER -> TRUE

\* C10: every declared property is mapped to its field kind: a date-time
\* string to datetime, a string with an enum to a type that accepts exactly
\* the listed values, another string to str, an integer to int, an array of
\* strings to List[str], another array to List[Any], a boolean to bool.
C10_TypeMapping ==
    (phase = "serving" /\ dynamic_models = "object") =>
        \A f \in Declared(file.value) :
            LET field_spec == CardItemOf(file.value).m["properties"].m[f]
            IN  IsDict(field_spec)
                    => KindAsClaimed(field_spec, ModelSeenByRequest("Card").fields[f].type)

(***************************************************************************)
(* Stored cards: C11, C12, C14, C15, C18, C19.                             *)
(***************************************************************************)
\* The status values the schema in force declares.
DeclaredStatuses == {x.s : x \in Range(GetStatusEnum(schema_data).xs)}

\* The stored record with an id, where there is one.
RecordOf(coll, card_id) == coll[CHOOSE i \in Found(coll, card_id) : TRUE]

\* C11: when the schema declares a status enum, an update carrying a status
\* outside the enum is rejected or stored as "planned", and the status of
\* every stored card is a member of the enum after any adds and updates.
C11_StoredStatusInEnum ==
    (phase = "serving" /\ DeclaredStatuses # {}) =>
        /\ \A i \in DOMAIN collection :
               "status" \in DOMAIN collection[i].metadata =>
                   /\ IsLiteral(collection[i].metadata["status"])
                   /\ collection[i].metadata["status"].s \in DeclaredStatuses
        /\ (/\ response.op = "update_card"
            /\ "status" \in DOMAIN response.request.payload
            /\ response.request.payload["status"].s \notin DeclaredStatuses
            /\ Found(collection, response.request.card_id) # {})
               => \/ response.status \in {400, 422}
                  \/ RecordOf(collection, response.request.card_id)
                         .metadata["status"] = PyStr("planned")

\* Whether a stored record has a completedAt that reads back as a time.
HasCompletedAt(metadata) ==
    /\ "completedAt" \in DOMAIN metadata
    /\ PyTruthy(metadata["completedAt"])
    /\ metadata["completedAt"] # PyStr("None")

\* C12: in every state of the store a card has a completedAt only when its
\* status is "done".
C12_CompletedOnlyWhenDone ==
    \A i \in DOMAIN collection :
        HasCompletedAt(collection[i].metadata)
            => collection[i].metadata["status"] = PyStr("done")

(***************************************************************************)
(* The life of cards: C13, C16, C17, C20.                                  *)
(***************************************************************************)
\* The positions of a request body whose card comes without an id.
AddedWithoutId(cards) ==
    {i \in DOMAIN cards : "id" \notin DOMAIN cards[i] \/ ~PyTruthy(cards[i]["id"])}

\* The ids of the cards a listing returns.
ListedIds(coll) ==
    LET cards == GetAllCards(coll, ModelSeenByRequest("Card"))
    IN  IF cards.ok THEN {cards.val[i].values["id"] : i \in DOMAIN cards.val}
        ELSE {}

\* C13: a card added without an id is given an id no other stored card and no
\* other card of the batch has, add returns that id, and get by id and the
\* listing report the card under it.
C13_AssignedIdRoundTrips ==
    (response.op = "put_cards" /\ response.status = 200) =>
        \A i \in AddedWithoutId(response.request.cards) :
            LET card_id == response.request.card_ids[i]
                card == GetCardById(collection, ModelSeenByRequest("Card"), card_id)
            IN  /\ Cardinality(Found(collection, card_id)) = 1
                /\ Found(prior, card_id) = {}
                /\ \A k \in DOMAIN response.request.card_ids :
                       k # i => response.request.card_ids[k] # card_id
                /\ card.r = "card" /\ card.card.values["id"] = card_id
                /\ card_id \in ListedIds(collection)

\* The records of the store before the last request that are still stored,
\* each with the record it is now.
Surviving ==
    {pair \in Range(prior) \X Range(collection) : pair[1].id = pair[2].id}

\* C14: createdAt is set at creation and no update alters it: after every
\* update (and every other request) a stored card has the createdAt it had
\* before, and the card an update returns carries that time.
C14_CreatedAtKept ==
    /\ \A pair \in Surviving :
           pair[2].metadata["createdAt"] = pair[1].metadata["createdAt"]
    /\ (response.op = "update_card" /\ response.status = 200) =>
           \A pair \in Surviving :
               pair[2].id = response.request.card_id =>
                   response.data[1]["createdAt"]
                       = FromIsoFormat(pair[1].metadata["createdAt"]).val

\* C14 witness: an update whose body carries a createdAt has changed the
\* stored card and refreshed its updatedAt, and the createdAt is the old one.
C14_Witness ==
    /\ response.op = "update_card" /\ response.status = 200
    /\ "createdAt" \in DOMAIN response.request.payload
    /\ collection # prior
    /\ \E pair \in Surviving :
           /\ pair[2].id = response.request.card_id
           /\ pair[2].metadata["updatedAt"] # pair[1].metadata["updatedAt"]
           /\ pair[2].metadata["createdAt"] = pair[1].metadata["createdAt"]
           /\ pair[2].metadata["createdAt"] # response.request.payload["createdAt"]

\* The reading of the clock a stored timestamp was written at.
TimeOf(text) == FromIsoFormat(text).val.t

\* C15: an update that changes a stored card sets its updatedAt to the time
\* of the update, which is not before the updatedAt it had, and no request
\* moves a stored updatedAt backwards.
C15_UpdatedAtRefreshed ==
    \A pair \in Surviving :
        /\ TimeOf(pair[2].metadata["updatedAt"])
               >= TimeOf(pair[1].metadata["updatedAt"])
        /\ (response.op = "update_card" /\ pair[2] # pair[1])
               => pair[2].metadata["updatedAt"] = IsoFormat(clock)

\* C15 witness: an update at a later reading of the clock has changed the
\* status of a stored card and moved its updatedAt forward to that reading.
C15_Witness ==
    /\ response.op = "update_card" /\ response.status = 200
    /\ \E pair \in Surviving :
           /\ pair[2].metadata["status"] # pair[1].metadata["status"]
           /\ pair[2].metadata["updatedAt"] = IsoFormat(clock)
           /\ TimeOf(pair[1].metadata["updatedAt"]) < clock

\* The fields an update of the status alone has to leave as they are.
KeptByStatusUpdate ==
    {"id", "title", "description", "order", "tags", "createdAt", "completedAt"}

\* A field of stored metadata, with a marker where the record has no such key.
StoredField(metadata, f) ==
    IF f \in DOMAIN metadata THEN metadata[f] ELSE [py |-> "missing"]

\* C18: after an update whose body sets only status, the stored record has
\* every other field but updatedAt as before, and the card the update returns
\* has them as the card read before the update had them.
C18_StatusUpdateKeepsOthers ==
    (/\ response.op = "update_card"
     /\ DOMAIN response.request.payload = {"status"}) =>
        /\ Len(collection) = Len(prior)
        /\ \A i \in DOMAIN collection :
               /\ collection[i].id # response.request.card_id
                      => collection[i] = prior[i]
               /\ \A f \in KeptByStatusUpdate :
                      StoredField(collection[i].metadata, f)
                          = StoredField(prior[i].metadata, f)
        /\ response.status = 200 =>
               LET read_before == GetCardById(prior, ModelSeenByRequest("Card"),
                                              response.request.card_id)
               IN  /\ read_before.r = "card"
                   /\ \A f \in KeptByStatusUpdate :
                          response.data[1][f] = read_before.card.values[f]

\* C18 witness: a status-only update of a card that has a completedAt and
\* tags was answered with the card, the status stored is another than before.
C18_Witness ==
    /\ response.op = "update_card" /\ response.status = 200
    /\ DOMAIN response.request.payload = {"status"}
    /\ \E pair \in Surviving :
           /\ pair[2].id = response.request.card_id
           /\ pair[2].metadata["status"] # pair[1].metadata["status"]
           /\ HasCompletedAt(pair[1].metadata)
           /\ response.data[1]["completedAt"] # PyNone
           /\ response.data[1]["tags"] = PyList(<<PyStr("backend")>>)

\* Whether the last request was a get, an update with a body FastAPI accepts
\* as a CardUpdate, or a delete, of an id no record had.
OfMissingId ==
    /\ response.op \in {"get_card", "update_card", "delete_card"}
    /\ Found(prior, response.request.card_id) = {}
    /\ response.op = "update_card" =>
           ValidateModel(ModelSeenByRequest("CardUpdate"),
                         response.request.payload).ok

\* C19: get, update and delete of an id that names no stored card are
\* answered 404, no server error, and leave the store as it was.
C19_MissingIdNotFound ==
    OfMissingId => response.status = 404 /\ collection = prior

\* C19 witness: the stored card was deleted, and a later update of its id was
\* answered 404.
C19_Witness ==
    /\ OfMissingId /\ response.op = "update_card" /\ response.status = 404
    /\ response.request.card_id = PyStr("c1")
    /\ collection = prior

\* The place of a card in the collection: its place in the order of insertion.
Position(coll, card_id) == CHOOSE i \in Found(coll, card_id) : TRUE

\* The stored records Card(**card_data) accepts.
Readable(coll) ==
    {i \in DOMAIN coll :
        /\ DOMAIN coll[i].metadata # {}
        /\ StoredCard(ModelSeenByRequest("Card"), coll[i].metadata).ok}

C17_ListingSkipsInvalid ==
    (response.op = "get_cards" /\ Readable(collection) # DOMAIN collection) =>
        /\ response.status = 200
        /\ Len(response.data) = Cardinality(Readable(collection))
        /\ {response.data[n]["id"] : n \in DOMAIN response.data}
               = {collection[i].id : i \in Readable(collection)}

\* C17 witness: a listing that left out a record stored before a record it
\* gives.
C17_Witness ==
    /\ response.op = "get_cards" /\ response.status = 200
    /\ \E i, k \in DOMAIN collection :
           /\ i < k /\ i \notin Readable(collection) /\ k \in Readable(collection)
           /\ \E n \in DOMAIN response.data :
                  response.data[n]["id"] = collection[k].id
           /\ \A n \in DOMAIN response.data :
                  response.data[n]["id"] # collection[i].id

\* C20: a card that was added and not deleted is returned by a get of its id;
\* a delete of a stored card succeeds, removes that card and leaves every
\* other card as it was; a get of an id that is not stored is answered 404,
\* and the listing gives stored cards only.
C20_CardLifecycle ==
    /\ (response.op = "get_card" /\ Found(collection, response.request.card_id) # {})
           => /\ response.status = 200
              /\ response.data[1]["id"] = response.request.card_id
    /\ (response.op = "get_card" /\ Found(collection, response.request.card_id) = {})
           => response.status = 404
    /\ (response.op = "delete_card" /\ Found(prior, response.request.card_id) # {})
           => /\ response.status = 200
              /\ collection = DeleteCard(prior, response.request.card_id)
              /\ Found(collection, response.request.card_id) = {}
    /\ (response.op = "get_cards" /\ response.status = 200)
           => \A n \in DOMAIN response.data :
                  Found(collection, response.data[n]["id"]) # {}

(***************************************************************************)
(* An update followed by a read: C21.                                      *)
(***************************************************************************)
\* The text of a status value, of a str and of an enum member.
StatusText(v) == IF v.py = "enum" THEN v.value ELSE v.s

\* The last request was an update of a card that could be read, with a body
\* holding a status of the schema's status values and a completedAt.
UpdatedStatusAndCompletedAt ==
    /\ response.op = "update_card"
    /\ {"status", "completedAt"} \subseteq DOMAIN response.request.payload
    /\ response.request.payload["status"].s \in DeclaredStatuses
    /\ GetCardById(prior, ModelSeenByRequest("Card"), response.request.card_id).r
           = "card"

\* C21: an update of an existing card with a status of the schema's status
\* values and a completedAt succeeds and returns the card with that status
\* and completedAt, and a get of the id then returns the card with the same
\* values.
C21_UpdateThenGet ==
    UpdatedStatusAndCompletedAt =>
        LET payload == response.request.payload
            later == GetCardById(collection, ModelSeenByRequest("Card"),
                                 response.request.card_id)
        IN  /\ response.status = 200
            /\ StatusText(response.data[1]["status"]) = payload["status"].s
            /\ response.data[1]["completedAt"]
                   = FromIsoFormat(payload["completedAt"]).val
            /\ later.r = "card"
            /\ later.card.values["status"] = response.data[1]["status"]
            /\ later.card.values["completedAt"] = response.data[1]["completedAt"]

(***************************************************************************)
(* Reloads and the classes in use: C22, C23.                               *)
(***************************************************************************)
\* A document the loader reads and the deriver derives classes from.
ValidDocument(doc) ==
    LoadSchema(JNull, doc).raised = "none" /\ CreateModels(doc.value).ok

\* The kind of a field type: for a type that refers to a Card class, the
\* fields of that class.
Kind(type) ==
    IF "card" \in DOMAIN type THEN [k |-> type.k, card |-> type.card.fields]
    ELSE type

\* The field set, required set and field kinds of a class.
Shape(class) ==
    [f \in DOMAIN class.fields |->
        [kind |-> Kind(class.fields[f].type),
         optional |-> class.fields[f].optional,
         default |-> class.fields[f].default]]

\* A step that ends a reload request while the file holds a valid document.
EndsReloadOfValid ==
    /\ phase = "serving" /\ reload_pc' = 0 /\ response'.op = "reload"
    /\ file' = file /\ ValidDocument(file)

\* The last reload succeeded and left the classes with the shapes they had
\* when it began.
SameShapes ==
    /\ schema_data = before.schema_data
    /\ \A n \in ModelNames :
           /\ Shape(dm[n]) = Shape(before.dm[n])
           /\ Shape(exported[n]) = Shape(before.exported[n])

\* The last reload succeeded on the document the loader held already.
ReloadedUnchanged ==
    /\ ReloadFinished /\ response.status = 200
    /\ loaded.doc.value = before.schema_data

ReloadedChanged ==
    /\ reload_pc = 0 /\ ngen > 1 /\ dynamic_models = "object"
    /\ \A n \in ModelNames : exported[n].gen = ngen /\ exported[n] = dm[n]
    /\ schema_data # before.schema_data

\* C23: after a successful reload with a changed schema, the cards that the
\* listing, the read by id and the update construct are instances of the
\* Card class derived by that reload.
C23_CardsOfLatestClass ==
    (/\ ReloadedChanged
     /\ response.op \in {"get_cards", "get_card", "update_card"}
     /\ response.status = 200 /\ response.data # <<>>)
        => response.models = {exported["Card"].gen}

(***************************************************************************)
(* Updates and reads of stored records: C24, C25, C26.                     *)
(***************************************************************************)
\* The last request was an update, with a body the CardUpdate class accepts,
\* of an id the store held.
UpdateOfStoredId ==
    /\ response.op = "update_card" /\ response.status # 422
    /\ \E i \in DOMAIN prior : prior[i].id = response.request.card_id

\* C24: an update of a stored id, with any payload the update class accepts,
\* the empty one included, answers success with the card as stored after the
\* call.
C24_StoredIdIsUpdated ==
    UpdateOfStoredId =>
        /\ response.status = 200
        /\ LET stored == GetCardById(collection, ModelSeenByRequest("Card"),
                                     response.request.card_id)
           IN  stored.r = "card" /\ response.data = <<stored.card.values>>

\* The last request was a read by id of a stored record that fails the
\* validation against the Card class.
ReadOfCorruptRecord ==
    /\ response.op = "get_card"
    /\ \E i \in DOMAIN collection \ Readable(collection) :
           collection[i].id = response.request.card_id

\* C25: the read by id of a stored record that fails validation answers
\* not-found and not a server error.
C25_CorruptRecordIsAbsent ==
    ReadOfCorruptRecord => response.status = 404

\* What update_card gave in the last request, an update that reached it.
LastUpdateCard ==
    LET Card == ModelSeenByRequest("Card")
        updates == ValidateModel(ModelSeenByRequest("CardUpdate"),
                                 response.request.payload)
    IN  UpdateCard(prior, Card, response.request.card_id, updates.val, clock)

\* The last request was an update that called update_card: the body was a
\* CardUpdate and the handler had read the card.
UpdateCardCalled ==
    /\ response.op = "update_card" /\ response.status # 422
    /\ GetCardById(prior, ModelSeenByRequest("Card"), response.request.card_id).r
           = "card"

\* C26: when update_card raises or returns no card, the stored record is the
\* record of before the call, whatever the payload.
C26_FailedUpdateChangesNothing ==
    (UpdateCardCalled /\ LastUpdateCard.r # "card") => collection = prior

(***************************************************************************)
(* Batches and the round trip of an added card: C27, C28.                  *)
(***************************************************************************)
\* The last request was an add that called add_cards.
AddCalled == response.op = "put_cards" /\ response.status # 422

\* The cards add_cards was called with: the cards of the body as instances of
\* the Card class of CardList.
LastBatch ==
    LET card_class == ModelSeenByRequest("CardList").fields["cards"].type.card
    IN  [i \in DOMAIN response.request.cards |->
            ValidateModel(card_class, response.request.cards[i]).val]

\* The preparation of each card of that batch.
LastPrepared ==
    Prepared(LastBatch, uuids - WithoutId(response.request.cards), clock)

\* C27: when the preparation of a card of the batch fails, add reports an
\* error and the store is as before; when add returns ids, it returns one id
\* per card, the id of a card that came with one at the position of that card,
\* and each id returned is stored.
C27_AddAllOrNothing ==
    AddCalled =>
        LET cards == response.request.cards
            card_ids == response.request.card_ids
        IN  /\ (\E i \in DOMAIN cards : ~LastPrepared[i].ok)
                   => response.status = 500 /\ collection = prior
            /\ response.status # 200 => collection = prior
            /\ response.status = 200 =>
                   /\ Len(card_ids) = Len(cards)
                   /\ \A i \in DOMAIN cards :
                          /\ i \notin AddedWithoutId(cards)
                                 => card_ids[i] = cards[i]["id"]
                          /\ Found(collection, card_ids[i]) # {}

\* C27 witness: a batch of two cards whose second card could not be prepared
\* while its first could; the add was refused and nothing was stored.
C27_Witness ==
    /\ AddCalled /\ Len(response.request.cards) = 2
    /\ LastPrepared[1].ok /\ ~LastPrepared[2].ok
    /\ response.status = 500 /\ collection = prior

\* The fields of a card the caller gives values for.
CallerFields == {"title", "description", "status", "order", "tags"}

\* The positions of the last batch whose card was stored by the add.
NewlyStored ==
    {i \in DOMAIN response.request.cards :
        Found(prior, response.request.card_ids[i]) = {}}

\* C28: the read by id of a card an add has stored gives the title,
\* description, status, order and tags that were submitted.
C28_AddThenGetRoundTrip ==
    (response.op = "put_cards" /\ response.status = 200) =>
        \A i \in NewlyStored :
            LET read == GetCardById(collection, ModelSeenByRequest("Card"),
                                    response.request.card_ids[i])
            IN  /\ read.r = "card"
                /\ \A f \in CallerFields \cap DOMAIN response.request.cards[i] :
                       read.card.values[f] = LastBatch[i].values[f]

(***************************************************************************)
(* AgentService (agent_service.py).  A prompt is the sequence of its       *)
(* words; the cards are JSON values, as json.loads returns them.  The      *)
(* fixed descriptions of the source are named by their first words.        *)
(***************************************************************************)
\* d.get(key, default) on a dict d.
DictGetDefault(d, key, default) ==
    IF key \in DOMAIN d.m THEN d.m[key] ELSE default

\* prompt.lower()
LowerText(prompt) == [i \in DOMAIN prompt |-> Lower(prompt[i])]

\* The keywords of the fallback generator that are part of a word of the
\* model, by the letters of the word.
KeywordsWithin(word) ==
    CASE word = "web-marketing" -> {"web", "marketing"}
      [] word = "happy" -> {"app"}
      [] word = "rebrand" -> {"brand"}
      [] OTHER -> {}

\* any(word in keywords for word in words)
AnyWordIn(words, keywords) ==
    \E i \in DOMAIN keywords : KeywordsWithin(keywords[i]) \cap words # {}

\* A card dict of the fallback generator.
FallbackCard(title, description, status, order, tags) ==
    JDict([title |-> JStr(title), description |-> description,
           status |-> JStr(status), order |-> JNum(order),
           tags |-> JList([i \in DOMAIN tags |-> JStr(tags[i])])])

\* The text f"{text} {prompt}. ..." of a generic task.
About(text, prompt) == [j |-> "str", s |-> text, prompt |-> prompt]

\* The list of the first cards.extend([...]), built when cards has n cards.
WebCards(n) ==
    << FallbackCard("Set up project repository",
                    JStr("Initialize version control system"), "planned",
                    n + 1, <<"setup", "git", "foundation">>),
       FallbackCard("Design system architecture",
                    JStr("Create comprehensive system design"), "research",
                    n + 2, <<"architecture", "planning", "design">>),
       FallbackCard("Develop user interface",
                    JStr("Build responsive frontend components"), "planned",
                    n + 3, <<"frontend", "ui", "development">>),
       FallbackCard("Build backend services",
                    JStr("Develop RESTful API endpoints"), "planned",
                    n + 4, <<"backend", "api", "development">>),
       FallbackCard("Testing and deployment",
                    JStr("Write comprehensive unit and integration tests"),
                    "planned", n + 5, <<"testing", "deployment", "devops">>) >>

\* The list of the second cards.extend([...]), built when cards has n cards.
MarketingCards(n) ==
    << FallbackCard("Research target audience",
                    JStr("Conduct comprehensive market research"), "research",
                    n + 1, <<"research", "audience", "strategy">>),
       FallbackCard("Develop content strategy",
                    JStr("Create a comprehensive content calendar"), "planned",
                    n + 2, <<"content", "planning", "branding">>),
       FallbackCard("Launch marketing campaigns",
                    JStr("Execute multi-channel marketing campaigns"), "planned",
                    n + 3, <<"execution", "campaigns", "optimization">>) >>

\* generic_tasks, built when cards has n cards.
GenericTasks(prompt, n) ==
    << FallbackCard("Project planning and requirements",
                    About("Define detailed project scope for:", prompt),
                    "research", n + 1, <<"planning", "requirements", "strategy">>),
       FallbackCard("Research and analysis",
                    About("Conduct thorough research relevant to:", prompt),
                    "research", n + 2, <<"research", "analysis", "discovery">>),
       FallbackCard("Design and prototyping",
                    About("Create initial designs for key components of:", prompt),
                    "planned", n + 3, <<"design", "prototyping", "ux">>),
       FallbackCard("Implementation and development",
                    About("Execute the main development work for:", prompt),
                    "planned", n + 4, <<"development", "implementation", "coding">>),
       FallbackCard("Testing and refinement",
                    About("Thoroughly test all aspects of:", prompt),
                    "planned", n + 5, <<"testing", "qa", "optimization">>) >>

\* _generate_fallback_cards
GenerateFallbackCards(prompt) ==
    LET keywords == LowerText(prompt)
        web == IF AnyWordIn({"web", "app", "website", "application", "mobile",
                             "frontend", "backend"}, keywords)
               THEN WebCards(0) ELSE <<>>
        cards == IF AnyWordIn({"marketing", "campaign", "promotion", "social",
                               "brand"}, keywords)
                 THEN web \o MarketingCards(Len(web)) ELSE web
        generic_tasks == GenericTasks(prompt, Len(cards))
        needed_cards == IF 5 - Len(cards) > 0 THEN 5 - Len(cards) ELSE 0
    IN  cards \o SubSeq(generic_tasks, 1, needed_cards)

\* valid_statuses of _format_cards
valid_statuses == {"research", "in-progress", "done", "blocked", "planned"}

\* The text f"Task {i}".
TaskTitle(i) == [j |-> "str", s |-> "Task", i |-> i]

\* The body of the loop of _format_cards for the i-th card.
FormatCard(card, i) ==
    LET status == DictGetDefault(card, "status", JStr("planned"))
        tags == DictGetDefault(card, "tags", JList(<<>>))
    IN  JDict([title |-> DictGetDefault(card, "title", TaskTitle(i)),
               description |-> DictGetDefault(card, "description", JStr("")),
               status |-> IF status.j = "str" /\ status.s \in valid_statuses
                          THEN status ELSE JStr("planned"),
               order |-> DictGetDefault(card, "order", JNum(i)),
               tags |-> IF tags.j = "list" THEN tags ELSE JList(<<>>)])

\* _format_cards: the loop runs over the elements of a list, the keys of a
\* dict and the characters of a str, and card.get raises for an element that
\* is no dict; a number and None cannot be enumerated.
FormatCards(cards_data) ==
    CASE cards_data.j = "list" ->
            IF \E i \in DOMAIN cards_data.xs : ~IsDict(cards_data.xs[i])
            THEN Raise("AttributeError")
            ELSE Ok([i \in DOMAIN cards_data.xs |-> FormatCard(cards_data.xs[i], i)])
      [] cards_data.j \in {"dict", "str"} ->
            IF Truthy(cards_data) THEN Raise("AttributeError") ELSE Ok(<<>>)
      [] OTHER -> Raise("TypeError")

\* What generate_content and response.text give: an error, or a text that is
\* empty, no JSON, or the JSON of a value.
ApiError == [ai |-> "raise"]

EmptyText == [ai |-> "text", text |-> ""]

NotJsonText == [ai |-> "text", text |-> "not json"]

JsonText(v) == [ai |-> "text", text |-> "json", value |-> v]

\* json.loads
JsonLoads(answer) ==
    IF answer.text = "json" THEN Ok(answer.value) ELSE Raise("JSONDecodeError")

\* _generate_cards_with_gemini: every exception of the call, of json.loads and
\* of _format_cards is caught and answered with the fallback cards.
GenerateCardsWithGemini(prompt, answer) ==
    IF answer.ai = "raise" THEN Ok(GenerateFallbackCards(prompt))
    ELSE IF answer.text = "" THEN Ok(GenerateFallbackCards(prompt))
    ELSE IF ~JsonLoads(answer).ok THEN Ok(GenerateFallbackCards(prompt))
    ELSE LET formatted == FormatCards(JsonLoads(answer).val)
         IN  IF formatted.ok THEN formatted
             ELSE Ok(GenerateFallbackCards(prompt))

\* AgentService.__init__: the model object exists when the environment gives
\* a key that is not empty.
AgentService(api_key) ==
    [gemini_api_key |-> api_key,
     model |-> IF Truthy(api_key) THEN JStr("GenerativeModel") ELSE JNull]

\* generate_cards_from_prompt
GenerateCardsFromPrompt(self, prompt, answer) ==
    IF Truthy(self.model) /\ Truthy(self.gemini_api_key)
    THEN LET cards == GenerateCardsWithGemini(prompt, answer)
         IN  IF cards.ok THEN cards ELSE Ok(GenerateFallbackCards(prompt))
    ELSE Ok(GenerateFallbackCards(prompt))

(***************************************************************************)
(* The agent tools (fastmcp_server.py).  FastMCP gives a tool arguments of *)
(* the declared types: a list of dicts, Optional[str], Optional[int].      *)
(***************************************************************************)
VALID_STATUSES == {"research", "in-progress", "done", "blocked", "planned"}

\* The text of datetime.isoformat() for an aware UTC time.
IsoText(t) == [j |-> "str", s |-> "isoformat", t |-> t]

\* str(uuid.uuid4()) for the k-th card of a call: the ids of one call differ.
UuidText(k) == [j |-> "str", s |-> "uuid4", k |-> k]

\* _parse_iso_or_epoch: the time of a number and of an ISO 8601 text, None for
\* None, for a text that does not parse and for every other value.
ParseIsoOrEpoch(v) ==
    CASE v.j = "num" -> Ok(v.n)
      [] v.j = "str" /\ v.s = "2025-01-01T00:00:01Z" -> Ok(1)
      [] v.j = "str" /\ v.s = "2025-01-01T00:00:02" -> Ok(2)
      [] OTHER -> Raise("None")

\* A card of the request whose status is passed on as it came.
ApiCardStatusAsGiven(card_data, idx, uuid, now_iso) ==
    LET first == DictGetNone(card_data, "completedAt")
        given == IF Truthy(first) THEN first
                 ELSE DictGetNone(card_data, "completed_at")
        dt == ParseIsoOrEpoch(given)
        tags == DictGetDefault(card_data, "tags", JList(<<>>))
    IN  JDict([id |-> uuid,
               title |-> DictGetDefault(card_data, "title", JStr("Untitled")),
               description |-> DictGetDefault(card_data, "description", JStr("")),
               status |-> DictGetDefault(card_data, "status", JStr("planned")),
               order |-> DictGetDefault(card_data, "order", JNum(idx)),
               tags |-> IF Truthy(tags) THEN tags ELSE JList(<<>>),
               createdAt |-> now_iso,
               updatedAt |-> now_iso,
               completedAt |-> IF ~Truthy(given) THEN given
                               ELSE IF dt.ok THEN IsoText(dt.val) ELSE JNull])

\* The body of the loop of create_kanban_cards for the idx-th card.
ApiCard(card_data, idx, uuid, now_iso) ==
    LET status == DictGetDefault(card_data, "status", JStr("planned"))
        first == DictGetNone(card_data, "completedAt")
        given == IF Truthy(first) THEN first
                 ELSE DictGetNone(card_data, "completed_at")
        dt == ParseIsoOrEpoch(given)
        tags == DictGetDefault(card_data, "tags", JList(<<>>))
    IN  JDict([id |-> uuid,
               title |-> DictGetDefault(card_data, "title", JStr("Untitled")),
               description |-> DictGetDefault(card_data, "description", JStr("")),
               status |-> IF status.j = "str" /\ status.s \in VALID_STATUSES
                          THEN status ELSE JStr("planned"),
               order |-> DictGetDefault(card_data, "order", JNum(idx)),
               tags |-> IF Truthy(tags) THEN tags ELSE JList(<<>>),
               createdAt |-> now_iso,
               updatedAt |-> now_iso,
               completedAt |-> IF ~Truthy(given) THEN given
                               ELSE IF dt.ok THEN IsoText(dt.val) ELSE JNull])

\* A request of make_api_request.
ApiRequest(method, endpoint, data) ==
    [method |-> method, endpoint |-> endpoint, data |-> data]

\* What the backend does with a request: it answers with success true, with
\* success false, or make_api_request raises (status 400 or more, no
\* connection, timeout).
BackendAnswers == {"success", "no success", "raise"}

\* Whether ', '.join(tags) works on truthy tags.
Joinable(tags) ==
    CASE tags.j = "list" -> \A i \in DOMAIN tags.xs : tags.xs[i].j = "str"
      [] tags.j \in {"str", "dict"} -> TRUE
      [] OTHER -> FALSE

\* create_kanban_cards: the requests it sends and the kind of text it returns.
CreateKanbanCards(cards, now, backend) ==
    LET api_cards == [idx \in DOMAIN cards |->
                         ApiCard(cards[idx], idx, UuidText(idx), IsoText(now))]
        request == ApiRequest("POST", <<"/api/cards">>,
                              JDict([cards |-> JList(api_cards)]))
    IN  IF cards = <<>> THEN [sent |-> <<>>, text |-> "No cards provided to create"]
        ELSE [sent |-> <<request>>,
              text |-> CASE backend = "raise" -> "Error"
                         [] backend = "no success" -> "Failed to create cards via API"
                         [] OTHER ->
                               IF \A idx \in DOMAIN cards :
                                      Truthy(api_cards[idx].m["tags"])
                                          => Joinable(api_cards[idx].m["tags"])
                               THEN "Successfully created"
                               ELSE "Error"]

\* The arguments of update_kanban_card that were supplied, by the keys of the
\* request: update_data.
UpdateData(arguments) ==
    LET supplied == {a \in DOMAIN arguments : arguments[a].j # "null"}
        key(a) == IF a = "completed_at" THEN "completedAt" ELSE a
        dt == ParseIsoOrEpoch(arguments["completed_at"])
    IN  JDict([k \in {key(a) : a \in supplied} |->
                 CASE k = "status" ->
                        IF arguments["status"].s \in VALID_STATUSES
                        THEN arguments["status"] ELSE JStr("planned")
                   [] k = "completedAt" ->
                        IF dt.ok THEN IsoText(dt.val) ELSE JNull
                   [] OTHER -> arguments[k]])

\* update_kanban_card: the requests it sends and the kind of text it returns.
UpdateKanbanCard(card_id, arguments, backend) ==
    LET update_data == UpdateData(arguments)
        request == ApiRequest("PUT", <<"/api/cards/", card_id>>, update_data)
    IN  IF ~Truthy(card_id) THEN [sent |-> <<>>, text |-> "No card ID provided"]
        ELSE IF ~Truthy(update_data)
        THEN [sent |-> <<>>, text |-> "No update fields provided"]
        ELSE [sent |-> <<request>>,
              text |-> CASE backend = "raise" -> "Error"
                         [] backend = "no success" -> "Failed to update card via API"
                         [] OTHER -> "Successfully updated"]

(***************************************************************************)
(* The agent side: card generation and the two writing tools, on prompts,  *)
(* answers of the AI call, cards and arguments of the model.  The tools    *)
(* run in a process of their own and read its clock.                       *)
(***************************************************************************)
\* GOOGLE_API_KEY: not set, empty, set.
ApiKeys == {JNull, JStr(""), JStr("key")}

Words == {"Web-marketing", "happy", "rebrand", "garden"}

Prompts == UNION {[1..n -> Words] : n \in 0..MaxWords}

\* Card dicts an AI answer may hold.
AiCards ==
    {JDict([title |-> JStr("Plan"), description |-> JStr("Plan the work"),
            status |-> JStr("in-progress"), order |-> JNum(1),
            tags |-> JList(<<JStr("plan")>>)]),
     JDict([title |-> JStr("Plan"), status |-> JStr("Done")]),
     JDict([status |-> JNull, tags |-> JStr("urgent")])}

Batches(cards) == UNION {[1..n -> cards] : n \in 0..MaxBatch}

\* What the AI call may answer.
Answers ==
    {ApiError, EmptyText, NotJsonText}
        \cup {JsonText(JList(xs)) : xs \in Batches(AiCards)}
        \cup {JsonText(v) : v \in {JDict([cards |-> JList(<<>>)]), EmptyDict,
                                   JNull, JStr(""), JList(<<JStr("task")>>)}}

\* The AI is not called.
NotCalled == [ai |-> "not called"]

\* await agent_service.generate_cards_from_prompt(prompt); the AI answers when
\* the service calls it.
GenerateCards ==
    /\ \E api_key \in ApiKeys, prompt \in Prompts :
        LET self == AgentService(api_key) IN
        \E answer \in IF Truthy(self.model) THEN Answers ELSE {NotCalled} :
            response' =
                [op |-> "generate_cards_from_prompt", status |-> 0,
                 request |-> [api_key |-> api_key, prompt |-> prompt,
                              answer |-> answer],
                 result |-> GenerateCardsFromPrompt(self, prompt, answer)]
    /\ UNCHANGED store_vars
    /\ UNCHANGED model_vars

\* Card dicts an agent may pass to create_kanban_cards.
ToolCards ==
    {JDict([title |-> JStr("Ship it"), status |-> JStr("done"),
            completedAt |-> JStr("2025-01-01T00:00:01Z"),
            tags |-> JList(<<JStr("Backend")>>)]),
     JDict([title |-> JStr("Ship it"), status |-> JStr("archived"),
            completed_at |-> JNum(2)]),
     JDict([status |-> JNull, tags |-> JNull, completedAt |-> JStr("soon")]),
     JDict([description |-> JStr("Release"), order |-> JNum(7),
            tags |-> JList(<<JNum(1)>>)])}

\* The tool create_kanban_cards, called by an agent.
CreateKanbanCardsCall ==
    /\ \E cards \in Batches(ToolCards), backend \in BackendAnswers :
        LET called == CreateKanbanCards(cards, clock, backend)
        IN  response' = [op |-> "create_kanban_cards", status |-> 0,
                         request |-> [cards |-> cards],
                         sent |-> called.sent, text |-> called.text]
    /\ UNCHANGED store_vars
    /\ UNCHANGED model_vars

\* Arguments an agent may pass to update_kanban_card; None for an argument
\* that is not supplied.
UpdateArguments ==
    [title : {JNull, JStr("Ship it")},
     description : {JNull},
     status : {JNull, JStr("done"), JStr("archived")},
     order : {JNull, JNum(0)},
     tags : {JNull, JList(<<>>)},
     completed_at : {JNull, JStr("2025-01-01T00:00:01Z"), JStr("soon")}]

\* The tool update_kanban_card, called by an agent.
UpdateKanbanCardCall ==
    /\ \E card_id \in {JStr("c1"), JStr("")}, arguments \in UpdateArguments,
          backend \in BackendAnswers :
        LET called == UpdateKanbanCard(card_id, arguments, backend)
        IN  response' = [op |-> "update_kanban_card", status |-> 0,
                         request |-> [card_id |-> card_id,
                                      arguments |-> arguments],
                         sent |-> called.sent, text |-> called.text]
    /\ UNCHANGED store_vars
    /\ UNCHANGED model_vars

InitAgent == InitFrom({Json(CardSchemaB)}, {<<>>})

NextAgent == GenerateCards \/ CreateKanbanCardsCall \/ UpdateKanbanCardCall

SpecAgent == InitAgent /\ [][NextAgent]_vars

(***************************************************************************)
(* The agent side: C29, C30.                                               *)
(***************************************************************************)
\* The five status values.
FiveStatuses == {"research", "in-progress", "done", "blocked", "planned"}

\* A status as it ought to leave the agent side for the status supplied
\* (None when none was supplied): one of the five, and "planned" when the
\* supplied one is not of the five.
StatusAsClaimed(status, supplied) ==
    /\ status.j = "str" /\ status.s \in FiveStatuses
    /\ ~(supplied.j = "str" /\ supplied.s \in FiveStatuses)
           => status = JStr("planned")

\* The last generation returned what _format_cards made of the AI's answer.
FormattedAnswer ==
    /\ response.op = "generate_cards_from_prompt"
    /\ response.request.answer.ai = "text"
    /\ JsonLoads(response.request.answer).ok
    /\ FormatCards(JsonLoads(response.request.answer).val).ok

\* C29: the status of every card _format_cards returns and of every card and
\* update the tools create_kanban_cards and update_kanban_card send is one of
\* the five, and "planned" when the status supplied is not; update_kanban_card
\* sends nothing when no field is supplied.
C29_InvalidStatusBecomesPlanned ==
    /\ FormattedAnswer =>
           \A i \in DOMAIN response.result.val :
               StatusAsClaimed(response.result.val[i].m["status"],
                               DictGetNone(response.request.answer.value.xs[i],
                                           "status"))
    /\ response.op = "create_kanban_cards" =>
           \A n \in DOMAIN response.sent :
               LET api_cards == response.sent[n].data.m["cards"].xs IN
               /\ Len(api_cards) = Len(response.request.cards)
               /\ \A i \in DOMAIN api_cards :
                      StatusAsClaimed(api_cards[i].m["status"],
                                      DictGetNone(response.request.cards[i],
                                                  "status"))
    /\ response.op = "update_kanban_card" =>
           /\ (\A a \in DOMAIN response.request.arguments :
                   response.request.arguments[a] = JNull)
                  => response.sent = <<>>
           /\ \A n \in DOMAIN response.sent :
                  LET update_data == response.sent[n].data.m IN
                  /\ "status" \in DOMAIN update_data
                         <=> response.request.arguments["status"] # JNull
                  /\ "status" \in DOMAIN update_data
                         => StatusAsClaimed(update_data["status"],
                                            response.request.arguments["status"])

\* C29 witness: create_kanban_cards has sent two cards, one supplied with the
\* status "archived" and sent as "planned", one supplied and sent as "done".
C29_Witness ==
    /\ response.op = "create_kanban_cards" /\ Len(response.sent) = 1
    /\ LET api_cards == response.sent[1].data.m["cards"].xs
           cards == response.request.cards
       IN  /\ Len(cards) = 2
           /\ DictGetNone(cards[1], "status") = JStr("done")
           /\ api_cards[1].m["status"] = JStr("done")
           /\ DictGetNone(cards[2], "status") = JStr("archived")
           /\ api_cards[2].m["status"] = JStr("planned")

\* The last generation ran without an answer of the AI to format: no key, an
\* error of the call, an empty text or a text that is no JSON.
WithoutAnswer ==
    /\ response.op = "generate_cards_from_prompt"
    /\ \/ response.request.answer.ai \in {"not called", "raise"}
       \/ response.request.answer.text # "json"

\* The cards are at least five, their orders are 1, 2, ... in list order and
\* their statuses are of the five.
FallbackAsClaimed(cards) ==
    /\ Len(cards) >= 5
    /\ \A i \in DOMAIN cards :
           /\ cards[i].m["order"] = JNum(i)
           /\ cards[i].m["status"].j = "str"
           /\ cards[i].m["status"].s \in FiveStatuses

\* C30: generate_cards_from_prompt never raises and yields a usable result, a
\* list that is not empty; without an answer of the AI it yields the cards of
\* the keyword generator; and the keyword generator gives, for the prompt, at
\* least five cards with the orders 1, 2, ..., n and statuses of the five.
C30_GenerationAlwaysUsable ==
    response.op = "generate_cards_from_prompt" =>
        /\ response.result.ok
        /\ response.result.val # <<>>
        /\ WithoutAnswer
               => response.result.val
                      = GenerateFallbackCards(response.request.prompt)
        /\ FallbackAsClaimed(GenerateFallbackCards(response.request.prompt))

====
